---- MODULE Spec2Model ----
(***************************************************************************)
(* CopyQ: the clipboard history (ClipboardModel, ClipboardBrowser), the    *)
(* length-framed message channel (readBytes, readMessage, writeMessage)    *)
(* and the single-instance server start-up (newServer).                    *)
(*                                                                         *)
(* Rows are the 0-based indices of the code; a TLA+ sequence is 1-based,   *)
(* so row r of the list m is m[r + 1].                                     *)
(***************************************************************************)
EXTENDS Integers, Sequences, FiniteSets, TLC

(***************************************************************************)
(* Bounds of the model.                                                    *)
(***************************************************************************)
\* largest value of the configured "maxitems"
MaxCap == 3

(***************************************************************************)
(* Values.                                                                 *)
(***************************************************************************)
\* clipboard contents (QMimeData bundles); "C" carries no text (an image)
Bundles == {"A", "B", "C"}

\* the data of a ClipboardItem that insertRows has created and setData has
\* not yet filled
EmptyItem == "empty"

\* QMimeData::hasText() of a bundle
hasText(data) == data \in {"A", "B"}

Min(a, b) == IF a < b THEN a ELSE b

Max(a, b) == IF a > b THEN a ELSE b

\* the command lists a configuration can hold.  re / wndre / input are the
\* sets of bundles whose text matches c.re, whose window title is null or
\* matches c.wndre, and for which c.input is empty or a format of the data.
NoCommand == << >>

AutoTabCommands ==
    << [automatic |-> TRUE, ignore |-> FALSE, tab |-> FALSE,
        re |-> {"A", "B"}, wndre |-> Bundles, input |-> {"A"}],
       [automatic |-> FALSE, ignore |-> FALSE, tab |-> FALSE,
        re |-> Bundles, wndre |-> Bundles, input |-> Bundles],
       [automatic |-> FALSE, ignore |-> TRUE, tab |-> TRUE,
        re |-> {"A"}, wndre |-> {"A", "C"}, input |-> Bundles],
       [automatic |-> TRUE, ignore |-> FALSE, tab |-> TRUE,
        re |-> {"A", "B"}, wndre |-> {"B"}, input |-> Bundles] >>

CommandConfigs == {NoCommand, AutoTabCommands}

(***************************************************************************)
(* State.                                                                  *)
(***************************************************************************)
VARIABLES
    m_clipboardList,  \* ClipboardModel::m_clipboardList, row 0 first
    m_max,            \* ClipboardModel::m_max
    maxItems,         \* ClipboardBrowserShared::maxItems
    commands,         \* ClipboardBrowserShared::commands
    m_update,         \* ClipboardBrowser::m_update (autoUpdate())
    m_id,             \* ClipboardBrowser::m_id, "" when the browser has no tab id
    timerActive,      \* m_timerSave->isActive()
    unsaved,          \* the list was modified since the last save to storage
    call,             \* the last operation: its name, arguments and the list before it
    ret,              \* what the last operation returned
    emitted,          \* the signals the last operation emitted, in order
    fault,            \* the last operation on the model accessed m_clipboardList
                      \* outside its rows (undefined behaviour)
    indexList,        \* the rows of the index list the last operation was given
    key,              \* the comparator or the key the last operation was given
    found,            \* the row the last findItem returned, -1: none
    moves,            \* the calls of move the last moveItems made, in order:
                      \* from, to, the row count and what move returned
    \* the storage of the history
    file,             \* the serialized history that operator<< wrote last
    saved,            \* the history and the m_max of the model it was written from
    \* one connected socket, from the writing peer to the reading one
    wire,             \* bytes written by the peer and not yet at the reader
    socket,           \* the bytes the reader's socket holds (bytesAvailable())
    peerClosed,       \* the writing peer has closed its end
    rd,               \* readMessage in progress: pc, size, read, bytes
    msg,              \* the caller's buffer, *msg of readMessage
    rdRet,            \* what the last readMessage returned: "none" while it runs
    sent,             \* the payloads written by writeMessage, in order
    received,         \* the payloads readMessage returned with true, in order
    consumed,         \* number of bytes read from the socket so far
    pollFailed,       \* some waitForReadyRead has returned false
    nread,            \* number of readMessage calls so far, capped at 2
    failedIn,         \* where the last readMessage to return false was reading
    \* the processes that call newServer for one endpoint name
    endpoint,         \* the process whose listener the name is registered to, 0: none
    sv,               \* per process: pc, listening (server->isListening()), and
                      \* what its newServer has done: probe, removed, bound
    pings,            \* per process: the bytes it wrote to its probe socket
    \* one call of hash or of cloneData
    srcData,          \* the QMimeData given: its formats in order, each with its bytes
    srcFormats,       \* the QStringList of formats given
    dataOp,           \* the function called last: "none", "hash", "cloneData"
    hashed,           \* what hash returned
    cloned            \* the QMimeData cloneData returned

histVars == << m_clipboardList, m_max, maxItems, commands, m_update, m_id,
               timerActive, unsaved, call, ret, emitted >>

modelVars == << fault, indexList, key, found, moves >>

storeVars == << file, saved >>

dataVars == << srcData, srcFormats, dataOp, hashed, cloned >>

(***************************************************************************)
(* QList, with 0-based rows.                                               *)
(***************************************************************************)
\* QList::insert(i, x)
insertAt(list, i, x) ==
    SubSeq(list, 1, i) \o << x >> \o SubSeq(list, i + 1, Len(list))

\* QList::takeAt(i): the list without row i
takeAt(list, i) ==
    SubSeq(list, 1, i) \o SubSeq(list, i + 2, Len(list))

\* the rows from and to exchanged
listMove_swap(list, from, to) ==
    [list EXCEPT ![from + 1] = list[to + 1], ![to + 1] = list[from + 1]]

\* QList::move(from, to): row `from` ends at row `to`
listMove(list, from, to) ==
    insertAt(takeAt(list, from), to, list[from + 1])

(***************************************************************************)
(* ClipboardModel.                                                         *)
(***************************************************************************)
rowCount(list) == Len(list)

\* ClipboardModel::m_max after construction
DefaultMax == 100

\* ClipboardModel::insertRows(position, 1): one new, empty item at position
insertRows(list, position) ==
    insertAt(list, position, EmptyItem)

\* ClipboardModel::setData(index, QMimeData *): the item of the row takes the data
setData(list, row, value) ==
    [list EXCEPT ![row + 1] = value]

\* ClipboardModel::removeRows(position, rows) for position >= 0: fails at or
\* past the end, else takes rows position..min(position+rows-1, count-1)
removeRows(list, position, rows) ==
    LET count == rowCount(list)
        last  == Min(position + rows - 1, count - 1)
    IN  IF position >= count
        THEN [ok |-> FALSE, list |-> list]
        ELSE [ok |-> TRUE,
              list |-> SubSeq(list, 1, position) \o SubSeq(list, last + 2, count)]

\* the outcomes of ClipboardModel::removeRows(position, rows): for a
\* position of 0 or more the one result of the code; for a negative position
\* the loop calls QList::takeAt with a row below 0, undefined behaviour
\* (an abort of an assertion or of the memory access, or a return with the
\* list as it was or short of some row)
removeRowsOutcomes(list, position, rows) ==
    IF position >= 0 \/ position + rows - 1 < position
    THEN {[ok |-> removeRows(list, position, rows).ok,
           list |-> removeRows(list, position, rows).list, fault |-> FALSE]}
    ELSE {[ok |-> ok, list |-> l, fault |-> TRUE] :
              ok \in BOOLEAN,
              l \in {list} \cup {takeAt(list, j) : j \in 0 .. Len(list) - 1}}

\* ClipboardBrowser::removeRow: the rows it refuses before it calls the model
removeRowRefused(list, row) ==
    row < 0 /\ row >= rowCount(list)

\* ClipboardModel::getRowNumber
getRowNumber(list, row, cycle) ==
    LET n == rowCount(list)
    IN  IF n = 0 THEN -1
        ELSE IF row >= n THEN (IF cycle THEN 0 ELSE n - 1)
        ELSE IF row < 0 THEN (IF cycle THEN n - 1 ELSE 0)
        ELSE row

\* QAbstractItemModel::beginMoveRows within one parent: a move of rows
\* first..last to just before row dest is refused when dest lies in
\* first..last+1 (the rows would not move)
beginMoveRows(first, last, dest) ==
    ~ (dest >= first /\ dest <= last + 1)

\* a move that takes the row after pos
move_fromNext(list, pos, newpos) ==
    LET from == getRowNumber(list, pos + 1, TRUE)
        to   == getRowNumber(list, newpos, TRUE)
    IN  IF from = -1 \/ to = -1
        THEN [ok |-> FALSE, list |-> list]
        ELSE IF ~ beginMoveRows(from, from, IF from < to THEN to + 1 ELSE to)
        THEN [ok |-> FALSE, list |-> list]
        ELSE [ok |-> TRUE, list |-> listMove(list, from, to)]

\* ClipboardModel::move(pos, newpos)
move(list, pos, newpos) ==
    LET from == getRowNumber(list, pos, TRUE)
        to   == getRowNumber(list, newpos, TRUE)
    IN  IF from = -1 \/ to = -1
        THEN [ok |-> FALSE, list |-> list]
        ELSE IF ~ beginMoveRows(from, from, IF from < to THEN to + 1 ELSE to)
        THEN [ok |-> FALSE, list |-> list]
        ELSE [ok |-> TRUE, list |-> listMove(list, from, to)]

\* a crop that takes the rows from the front instead of the tail
setMaxItems_front(list, max) ==
    LET rows == Len(list)
    IN  [m_max |-> IF max > 0 THEN max ELSE 0,
         list  |-> IF max >= rows THEN list ELSE SubSeq(list, rows - max + 1, rows),
         removed |-> ~ (max >= rows)]

\* ClipboardModel::setMaxItems(max), for max >= 0: the new m_max and the list
\* cropped from the tail to max rows
setMaxItems(list, max) ==
    LET rows == Len(list)
    IN  [m_max |-> IF max > 0 THEN max ELSE 0,
         list  |-> IF max >= rows THEN list ELSE SubSeq(list, 1, max),
         removed |-> ~ (max >= rows)]

(***************************************************************************)
(* ClipboardBrowser.                                                       *)
(***************************************************************************)
\* ClipboardItem::operator==(const QMimeData &): equal content in all formats
ItemEquals(item, data) == item = data

\* a notification that carries the last item instead of the first
updateClipboard_last(list) ==
    IF rowCount(list) > 0 THEN << << "changeClipboard", list[Len(list)] >> >>
    ELSE << >>

\* ClipboardBrowser::updateClipboard: the signals it emits
updateClipboard(list) ==
    IF rowCount(list) > 0 THEN << << "changeClipboard", list[1] >> >> ELSE << >>

\* ClipboardBrowser::dataChanged(a, a) for row a: the signals it emits
dataChanged(list, row, update) ==
    IF update /\ row = 0 THEN updateClipboard(list) ELSE << >>

\* the comparison with the first item, skipped for a history of one item
sameAsFirst_two(list, data) ==
    rowCount(list) > 1 /\ ItemEquals(list[1], data)

\* add, !force: "don't add if new data is same as first item"
sameAsFirst(list, data) ==
    rowCount(list) > 0 /\ ItemEquals(list[1], data)

\* add, !force: whether command c applies to the data
commandMatches(c, data) ==
    /\ (c.automatic \/ c.ignore \/ c.tab)
    /\ data \in c.re
    /\ data \in c.wndre

\* add, !force: the signals one matching command emits
commandSignals(c, data) ==
    (IF c.automatic /\ data \in c.input
     THEN << << "requestActionDialog", data >> >> ELSE << >>)
    \o (IF c.tab THEN << << "addToTab", data >> >> ELSE << >>)

\* add, !force: the loop over the commands from command i on; ignored is
\* TRUE when a matching command with ignore set ended the loop
RECURSIVE runCommands(_, _, _)
runCommands(cmds, i, data) ==
    IF i > Len(cmds) THEN [ignored |-> FALSE, emitted |-> << >>]
    ELSE IF ~ commandMatches(cmds[i], data) THEN runCommands(cmds, i + 1, data)
    ELSE IF cmds[i].ignore
         THEN [ignored |-> TRUE, emitted |-> commandSignals(cmds[i], data)]
         ELSE LET rest == runCommands(cmds, i + 1, data)
              IN  [ignored |-> rest.ignored,
                   emitted |-> commandSignals(cmds[i], data) \o rest.emitted]

\* the commands run without the return at a command with ignore set
addCommands_noIgnore(cmds, data) ==
    IF hasText(data)
    THEN [ignored |-> FALSE, emitted |-> runCommands(cmds, 1, data).emitted]
    ELSE [ignored |-> FALSE, emitted |-> << >>]

\* add, !force: the commands applied to data with text
addCommands(cmds, data) ==
    IF hasText(data) THEN runCommands(cmds, 1, data)
    ELSE [ignored |-> FALSE, emitted |-> << >>]

\* a row for the new item after all others
newRow_end(list, row) == rowCount(list)

\* add: the row of the new item
newRow(list, row) == Max(0, Min(row, rowCount(list)))

\* list size limit that lets one row too many stay
listSizeLimit_late(list, limit) ==
    IF rowCount(list) > limit + 1
    THEN removeRows(list, rowCount(list) - 1, 1).list
    ELSE list

\* add: "list size limit"
listSizeLimit(list, limit) ==
    IF rowCount(list) > limit
    THEN removeRows(list, rowCount(list) - 1, 1).list
    ELSE list

\* ClipboardBrowser::add(data, force, row): what it returns, the list it
\* leaves, the signals it emits and whether the model changed
add(list, data, force, row, cmds, limit, update) ==
    LET cmd == IF force THEN [ignored |-> FALSE, emitted |-> << >>]
               ELSE addCommands(cmds, data)
        r   == newRow(list, row)
        ins == setData(insertRows(list, r), r, data)
    IN  IF ~ force /\ sameAsFirst(list, data)
        THEN [ret |-> FALSE, list |-> list, emitted |-> << >>, changed |-> FALSE]
        ELSE IF cmd.ignored
        THEN [ret |-> FALSE, list |-> list, emitted |-> cmd.emitted,
              changed |-> FALSE]
        ELSE [ret |-> TRUE,
              list |-> listSizeLimit(ins, limit),
              emitted |-> cmd.emitted \o dataChanged(ins, r, update),
              changed |-> TRUE]

\* ClipboardBrowser::delayedSaveItems: the save timer afterwards
delayedSaveItems(id, active) ==
    IF id = "" \/ active THEN active ELSE TRUE

\* ClipboardItem::text() as a sort key of localeAwareCompare: the bundles
\* without text have the empty text, which is before any other
itemText(item) ==
    IF item = "A" THEN 1 ELSE IF item = "B" THEN 2 ELSE 0

\* alphaSort(lhs, rhs), on pairs << row, item >>
alphaSort(lhs, rhs) == itemText(lhs[2]) < itemText(rhs[2])

\* reverseSort(lhs, rhs), on pairs << row, item >>
reverseSort(lhs, rhs) == lhs[1] > rhs[1]

\* the comparators sortItems is called with
Comparators == {"alphaSort", "reverseSort"}

\* compare(lhs, rhs) for the comparator named
lessThan(compare, lhs, rhs) ==
    IF compare = "alphaSort" THEN alphaSort(lhs, rhs) ELSE reverseSort(lhs, rhs)

\* the sequences that hold each element of S once
RECURSIVE Orders(_)
Orders(S) ==
    IF S = {} THEN {<< >>}
    ELSE UNION {{<< x >> \o ord : ord \in Orders(S \ {x})} : x \in S}

\* qSort(rows): the rows in ascending order
RECURSIVE sortedRows(_)
sortedRows(S) ==
    IF S = {} THEN << >>
    ELSE LET least == CHOOSE x \in S : \A y \in S : x <= y
         IN  << least >> \o sortedRows(S \ {least})

\* an order that is never a result of qSort: the first two swapped
qSortResults_unsorted(list, rows, compare) ==
    {[i \in 1 .. Cardinality(rows) |->
          IF Cardinality(rows) < 2 THEN sortedRows(rows)[i]
          ELSE IF i = 1 THEN sortedRows(rows)[2]
          ELSE IF i = 2 THEN sortedRows(rows)[1]
          ELSE sortedRows(rows)[i]]}

\* qSort(list.begin(), list.end(), compare) on the pairs << row, item >> of
\* the rows: the orders of the rows it can return, every order in which no
\* pair is less than one before it (which of two pairs that are not less
\* than each other comes first is undefined for qSort)
qSortResults(list, rows, compare) ==
    {ord \in Orders(rows) :
         \A i, j \in 1 .. Cardinality(rows) :
             i < j => ~ lessThan(compare, << ord[j], list[ord[j] + 1] >>,
                                          << ord[i], list[ord[i] + 1] >>)}

\* ClipboardModel::sortItems, the loop of assignments: row rows[i] gets the
\* item of the i-th pair of the sorted list
sortAssign(list, rows, ord) ==
    [r \in 1 .. Len(list) |->
         IF r - 1 \in rows
         THEN list[ord[Cardinality({row \in rows : row < r - 1}) + 1] + 1]
         ELSE list[r]]

\* ClipboardModel::sortItems(indexList, compare): the lists it can leave,
\* each with the signals of ClipboardBrowser::dataChanged for the rows
\* assigned; nothing is done when a row is past the end
sortItems(list, rows, compare, update) ==
    IF \E row \in rows : row >= Len(list)
    THEN {[list |-> list, emitted |-> << >>, changed |-> FALSE]}
    ELSE {[list |-> sortAssign(list, rows, ord),
           emitted |-> IF 0 \in rows /\ ord[1] # 0
                       THEN dataChanged(sortAssign(list, rows, ord), 0, update)
                       ELSE << >>,
           changed |-> \E i \in 1 .. Cardinality(rows) : ord[i] # sortedRows(rows)[i]] :
              ord \in qSortResults(list, rows, compare)}

\* ClipboardItem::dataHash(): the fingerprint of the bundle of an item; the
\* bundles "A" and "C" collide
dataHash(item) ==
    IF item \in {"A", "C"} THEN 1
    ELSE IF item = "B" THEN 2
    ELSE IF item = "D" THEN 3
    ELSE 0

\* the fingerprints looked for: those of the bundles and one of no bundle
Hashes == {dataHash(item) : item \in Bundles \cup {"D"}} \cup {4}

\* a scan that returns the last row with the fingerprint
RECURSIVE findItem_last(_, _)
findItem_last(list, item_hash) ==
    IF list = << >> THEN -1
    ELSE IF dataHash(list[Len(list)]) = item_hash THEN Len(list) - 1
    ELSE findItem_last(SubSeq(list, 1, Len(list) - 1), item_hash)

\* ClipboardModel::findItem, the loop from row i on
RECURSIVE findItemFrom(_, _, _)
findItemFrom(list, i, item_hash) ==
    IF ~ (i < Len(list)) THEN -1
    ELSE IF dataHash(list[i + 1]) = item_hash THEN i
    ELSE findItemFrom(list, i + 1, item_hash)

\* ClipboardModel::findItem(item_hash)
findItem(list, item_hash) ==
    findItemFrom(list, 0, item_hash)

\* the keys moveItems is called with; any other key is taken as Key_Home
MoveKeys == {"Key_Down", "Key_Up", "Key_End", "Key_Home"}

\* the sequence s from its last element to its first
RECURSIVE reversed(_)
reversed(s) ==
    IF s = << >> THEN << >> ELSE Append(reversed(Tail(s)), Head(s))

\* moveItems: the rows of the index list, sorted with qGreater for Key_Down
\* and Key_End and with qLess for the other keys
moveOrder(rows, k) ==
    IF k \in {"Key_Down", "Key_End"} THEN reversed(sortedRows(rows))
    ELSE sortedRows(rows)

\* moveItems, the switch: the destination of the i-th move
moveTarget(k, from, i, rows) ==
    IF k = "Key_Down" THEN from + 1
    ELSE IF k = "Key_Up" THEN from - 1
    ELSE IF k = "Key_End" THEN rows - i - 1
    ELSE 0 + i

\* a result that forgets the moves to row 0
crossed_noDest(from, to, rows) ==
    from = 0 \/ to = rows

\* a result that forgets the moves away from row 0
crossed_noSource(from, to, rows) ==
    to = 0 \/ to = rows

\* moveItems: res = to==0 || from==0 || to == rowCount()
crossed(from, to, rows) ==
    to = 0 \/ from = 0 \/ to = rows

\* ClipboardModel::moveItems, the loop from the i-th row of the sorted list
\* on, with the offset d and the result res so far
RECURSIVE moveItemsFrom(_, _, _, _, _, _, _)
moveItemsFrom(list, order, k, i, d, res, done) ==
    IF ~ (i < Len(order))
    THEN [ret |-> res, list |-> list, moves |-> done]
    ELSE LET from == order[i + 1] + d
             to   == moveTarget(k, from, i, rowCount(list))
             d2   == IF to < 0 THEN d - 1
                     ELSE IF to >= rowCount(list) THEN d + 1
                     ELSE d
             mv   == move(list, from, to)
             rec  == [from |-> from, to |-> to, rows |-> rowCount(list),
                      ok |-> mv.ok]
         IN  IF ~ mv.ok
             THEN [ret |-> FALSE, list |-> list, moves |-> Append(done, rec)]
             ELSE moveItemsFrom(mv.list, order, k, i + 1, d2,
                                IF ~ res THEN crossed(from, to, rowCount(list))
                                ELSE res,
                                Append(done, rec))

\* ClipboardModel::moveItems(indexList, key)
moveItems(list, rows, k) ==
    moveItemsFrom(list, moveOrder(rows, k), k, 0, 0, FALSE, << >>)

\* the record of an operation in `call`
Call(op, data, force, row, row2) ==
    [op |-> op, data |-> data, force |-> force, row |-> row, row2 |-> row2,
     old |-> m_clipboardList]

\* the slots connected to the model's rowsInserted, rowsRemoved, rowsMoved
\* and dataChanged signals, run when the model changed
Modified(changed) ==
    /\ timerActive' = IF changed THEN delayedSaveItems(m_id, timerActive)
                      ELSE timerActive
    /\ unsaved' = (unsaved \/ changed)

(***************************************************************************)
(* Operations on the history.                                              *)
(***************************************************************************)
InitHist ==
    /\ m_clipboardList = << >>
    /\ m_max = DefaultMax
    /\ maxItems \in 0 .. MaxCap
    /\ commands \in CommandConfigs
    /\ m_update = FALSE
    /\ m_id = ""
    /\ timerActive = FALSE
    /\ unsaved = FALSE
    /\ call = [op |-> "init", data |-> EmptyItem, force |-> FALSE, row |-> 0,
               row2 |-> 0, old |-> << >>]
    /\ ret = FALSE
    /\ emitted = << >>

\* ClipboardBrowser::add(QMimeData *data, bool force, int row)
Add(data, force, row) ==
    LET res == add(m_clipboardList, data, force, row, commands, maxItems, m_update)
    IN  /\ m_clipboardList' = res.list
        /\ ret' = res.ret
        /\ emitted' = res.emitted
        /\ call' = Call("add", data, force, row, 0)
        /\ Modified(res.changed)
        /\ UNCHANGED << m_max, maxItems, commands, m_update, m_id >>

\* ClipboardBrowser::moveToClipboard(int i); ret records what m->move(i, 0)
\* returned, which moveToClipboard itself drops
MoveToClipboard(i) ==
    LET res == move(m_clipboardList, i, 0)
    IN  /\ m_clipboardList' = res.list
        /\ ret' = res.ok
        /\ emitted' = IF m_update THEN updateClipboard(res.list) ELSE << >>
        /\ call' = Call("moveToClipboard", EmptyItem, FALSE, i, 0)
        /\ Modified(res.ok)
        /\ UNCHANGED << m_max, maxItems, commands, m_update, m_id >>

\* ClipboardBrowser::removeRow(row): model()->removeRow(row), which is
\* removeRows(row, 1); ret records what the model returned
RemoveRow(row) ==
    /\ ~ removeRowRefused(m_clipboardList, row)
    /\ \E res \in removeRowsOutcomes(m_clipboardList, row, 1) :
           /\ m_clipboardList' = res.list
           /\ ret' = res.ok
           /\ fault' = res.fault
           /\ Modified(res.list # m_clipboardList)
    /\ indexList' = {}
    /\ key' = ""
    /\ found' = -1
    /\ moves' = << >>
    /\ emitted' = << >>
    /\ call' = Call("removeRow", EmptyItem, FALSE, row, 0)
    /\ UNCHANGED << m_max, maxItems, commands, m_update, m_id >>

\* ClipboardBrowser::sortItems(indexes) and reverseItems(indexes):
\* m->sortItems(indexes, &alphaSort) and m->sortItems(indexes, &reverseSort)
SortItems(rows, compare) ==
    /\ \E res \in sortItems(m_clipboardList, rows, compare, m_update) :
           /\ m_clipboardList' = res.list
           /\ emitted' = res.emitted
           /\ Modified(res.changed)
    /\ ret' = FALSE
    /\ fault' = FALSE
    /\ indexList' = rows
    /\ key' = compare
    /\ found' = -1
    /\ moves' = << >>
    /\ call' = Call("sortItems", EmptyItem, FALSE, 0, 0)
    /\ UNCHANGED << m_max, maxItems, commands, m_update, m_id >>

\* ClipboardModel::findItem(item_hash), a const function; call.row holds
\* item_hash
FindItem(item_hash) ==
    /\ found' = findItem(m_clipboardList, item_hash)
    /\ ret' = FALSE
    /\ fault' = FALSE
    /\ indexList' = {}
    /\ key' = ""
    /\ moves' = << >>
    /\ emitted' = << >>
    /\ call' = Call("findItem", EmptyItem, FALSE, item_hash, 0)
    /\ UNCHANGED << m_clipboardList, m_max, maxItems, commands, m_update, m_id,
                    timerActive, unsaved >>

\* ClipboardModel::moveItems(indexList, key) with the rows of the selection
MoveItems(rows, k) ==
    LET res == moveItems(m_clipboardList, rows, k)
    IN  /\ m_clipboardList' = res.list
        /\ ret' = res.ret
        /\ moves' = res.moves
        /\ Modified(\E i \in 1 .. Len(res.moves) : res.moves[i].ok)
        /\ fault' = FALSE
        /\ indexList' = rows
        /\ key' = k
        /\ found' = -1
        /\ emitted' = << >>
        /\ call' = Call("moveItems", EmptyItem, FALSE, 0, 0)
        /\ UNCHANGED << m_max, maxItems, commands, m_update, m_id >>

\* ClipboardBrowserShared::loadFromConfiguration
LoadFromConfiguration(max, cmds) ==
    /\ maxItems' = max
    /\ commands' = cmds
    /\ ret' = FALSE
    /\ emitted' = << >>
    /\ call' = Call("loadFromConfiguration", EmptyItem, FALSE, max, 0)
    /\ UNCHANGED << m_clipboardList, m_max, m_update, m_id, timerActive, unsaved >>

\* ClipboardBrowser::loadSettings: m->setMaxItems(m_sharedData->maxItems)
LoadSettings ==
    LET res == setMaxItems(m_clipboardList, maxItems)
    IN  /\ m_clipboardList' = res.list
        /\ m_max' = res.m_max
        /\ ret' = FALSE
        /\ emitted' = << >>
        /\ call' = Call("loadSettings", EmptyItem, FALSE, maxItems, 0)
        /\ Modified(res.removed)
        /\ UNCHANGED << maxItems, commands, m_update, m_id >>

\* ClipboardBrowser::setAutoUpdate
SetAutoUpdate(update) ==
    /\ m_update' = update
    /\ ret' = FALSE
    /\ emitted' = << >>
    /\ call' = Call("setAutoUpdate", EmptyItem, update, 0, 0)
    /\ UNCHANGED << m_clipboardList, m_max, maxItems, commands, m_id,
                    timerActive, unsaved >>

\* the save timer expires: ClipboardBrowser::saveItems
SaveItems ==
    /\ timerActive
    /\ m_id # ""
    /\ timerActive' = FALSE
    /\ unsaved' = FALSE
    /\ ret' = FALSE
    /\ emitted' = << >>
    /\ call' = Call("saveItems", EmptyItem, FALSE, 0, 0)
    /\ UNCHANGED << m_clipboardList, m_max, maxItems, commands, m_update, m_id >>

(***************************************************************************)
(* The message channel: readBytes, readMessage, writeMessage.              *)
(***************************************************************************)
\* longest payload written
MaxPayload == 2

\* most bytes ever written to the socket
MaxStream == 10

\* the byte values of payloads
ByteVals == {0, 1}

RECURSIVE SeqsUpTo(_, _)
SeqsUpTo(S, n) ==
    IF n = 0 THEN {<< >>}
    ELSE LET shorter == SeqsUpTo(S, n - 1)
         IN  shorter \cup {Append(q, x) : q \in {p \in shorter : Len(p) = n - 1}, x \in S}

Payloads == SeqsUpTo(ByteVals, MaxPayload)

chanVars == << wire, socket, peerClosed, rd, msg, rdRet, sent, received,
               consumed, pollFailed, nread, failedIn >>

\* sizeof(quint32)
LenSize == 4

\* QDataStream << quint32: four bytes, most significant first (n is a
\* length, a non-negative int, which a quint32 holds unchanged)
writeUInt32(n) ==
    << (n \div 16777216) % 256, (n \div 65536) % 256, (n \div 256) % 256, n % 256 >>

\* a decoder that takes the least significant byte first
readUInt32_littleEndian(bytes) ==
    bytes[4] * 16777216 + bytes[3] * 65536 + bytes[2] * 256 + bytes[1]

\* QDataStream(bytes) >> len: the first four bytes, most significant first
readUInt32(bytes) ==
    bytes[1] * 16777216 + bytes[2] * 65536 + bytes[3] * 256 + bytes[4]

\* writeMessage: QDataStream::writeBytes, the length as a quint32, then msg
writeMessage(payload) ==
    writeUInt32(Len(payload)) \o payload

\* a read that takes everything the socket holds
availToRead_all(bytesAvailable, size, read) ==
    bytesAvailable

\* readBytes: avail = qMin(socket->bytesAvailable(), size - read)
availToRead(bytesAvailable, size, read) ==
    Min(bytesAvailable, size - read)

\* readMessage when it is not running
RdIdle == [pc |-> "idle", size |-> 0, read |-> 0, bytes |-> << >>]

\* the bytes of the frames of the first n payloads sent
RECURSIVE FramesLen(_, _)
FramesLen(payloads, n) ==
    IF n = 0 THEN 0
    ELSE FramesLen(payloads, n - 1) + LenSize + Len(payloads[n])

\* number of bytes written so far: at the reader, read by it, or in flight
Written == consumed + Len(socket) + Len(wire)

InitChan ==
    /\ wire = << >>
    /\ socket = << >>
    /\ peerClosed = FALSE
    /\ rd = RdIdle
    /\ msg = << >>
    /\ rdRet = "none"
    /\ sent = << >>
    /\ received = << >>
    /\ consumed = 0
    /\ pollFailed = FALSE
    /\ nread = 0
    /\ failedIn = "none"

\* the peer calls writeMessage(socket, payload)
WriteMessage(payload) ==
    /\ ~ peerClosed
    /\ Written + Len(writeMessage(payload)) <= MaxStream
    /\ wire' = wire \o writeMessage(payload)
    /\ sent' = Append(sent, payload)
    /\ UNCHANGED << socket, peerClosed, rd, msg, rdRet, received, consumed,
                    pollFailed, nread, failedIn >>

\* the peer closes its end, or dies inside writeMessage: only the first k
\* bytes of the frame (none for a plain close) leave
AbortedWrite(payload, k) ==
    /\ ~ peerClosed
    /\ k < Len(writeMessage(payload))
    /\ Written + k <= MaxStream
    /\ wire' = wire \o SubSeq(writeMessage(payload), 1, k)
    /\ peerClosed' = TRUE
    /\ UNCHANGED << socket, rd, msg, rdRet, sent, received, consumed,
                    pollFailed, nread, failedIn >>

\* the transport hands the next k bytes to the reader's socket
Deliver(k) ==
    /\ k <= Len(wire)
    /\ socket' = socket \o SubSeq(wire, 1, k)
    /\ wire' = SubSeq(wire, k + 1, Len(wire))
    /\ UNCHANGED << peerClosed, rd, msg, rdRet, sent, received, consumed,
                    pollFailed, nread, failedIn >>

\* readMessage is called: it enters readBytes(socket, sizeof(len), &bytes)
ReadMessage ==
    /\ rd.pc = "idle"
    /\ rd' = [pc |-> "header", size |-> LenSize, read |-> 0, bytes |-> << >>]
    /\ rdRet' = "none"
    /\ nread' = Min(nread + 1, 2)
    /\ UNCHANGED << wire, socket, peerClosed, msg, sent, received, consumed,
                    pollFailed, failedIn >>

\* readMessage returns true with the payload in *msg
ReturnTrue(payload) ==
    /\ rd' = RdIdle
    /\ msg' = payload
    /\ rdRet' = "true"
    /\ received' = Append(received, payload)

\* one pass of the loop of readBytes with bytes available: it reads avail
\* bytes; with the length complete readMessage decodes it, clears *msg and
\* reads the payload into *msg
ReadBytes ==
    /\ rd.pc \in {"header", "payload"}
    /\ socket # << >>
    /\ LET avail == availToRead(Len(socket), rd.size, rd.read)
           chunk == SubSeq(socket, 1, avail)
           read  == rd.read + avail
       IN  /\ socket' = SubSeq(socket, avail + 1, Len(socket))
           /\ consumed' = consumed + avail
           /\ IF rd.pc = "header"
              THEN IF read < rd.size
                   THEN /\ rd' = [rd EXCEPT !.read = read, !.bytes = rd.bytes \o chunk]
                        /\ UNCHANGED << msg, rdRet, received >>
                   ELSE LET len == readUInt32(rd.bytes \o chunk)
                        IN  IF 0 < len
                            THEN /\ rd' = [pc |-> "payload", size |-> len,
                                           read |-> 0, bytes |-> << >>]
                                 /\ msg' = << >>
                                 /\ UNCHANGED << rdRet, received >>
                            ELSE ReturnTrue(<< >>)
              ELSE IF read < rd.size
                   THEN /\ rd' = [rd EXCEPT !.read = read]
                        /\ msg' = msg \o chunk
                        /\ UNCHANGED << rdRet, received >>
                   ELSE ReturnTrue(msg \o chunk)
    /\ UNCHANGED << wire, peerClosed, sent, pollFailed, nread, failedIn >>

\* readBytes finds no bytes available and waitForReadyRead(1000) returns
\* false (nothing came in time, or the peer has closed): readMessage
\* returns false
PollFails ==
    /\ rd.pc \in {"header", "payload"}
    /\ socket = << >>
    /\ rd' = RdIdle
    /\ rdRet' = "false"
    /\ failedIn' = rd.pc
    /\ pollFailed' = TRUE
    /\ UNCHANGED << wire, socket, peerClosed, msg, sent, received, consumed, nread >>

(***************************************************************************)
(* newServer: the single-instance start-up on one endpoint name.           *)
(***************************************************************************)
\* number of processes that start
NumProcs == 3

Procs == 1 .. NumProcs

srvVars == << endpoint, sv, pings >>

\* a process before it calls newServer
SvOff == [pc |-> "off", listening |-> FALSE, probe |-> "none",
          removed |-> FALSE, bound |-> FALSE, removedLive |-> FALSE]

\* the name is registered to a running, listening instance: a connect succeeds
Accepting ==
    endpoint # 0 /\ sv[endpoint].pc = "done" /\ sv[endpoint].listening

\* a ping of two bytes only
pingBytes_short == << 0, 0 >>

\* newServer, "server is running": out << (quint32)0
pingBytes == writeUInt32(0)

\* a removeServer that leaves the registration where it is
removeServer_keep(owner) == owner

\* QLocalServer::removeServer(name): the registration of the name is deleted,
\* whoever made it
removeServer(owner) == 0

\* QLocalServer::listen(name) by process p: it binds the name when the name
\* is not registered, and fails (address in use) when it is
listen(owner, p) ==
    IF owner = 0 THEN [ok |-> TRUE, owner |-> p] ELSE [ok |-> FALSE, owner |-> owner]

\* readBytes when all of stream is at the socket and nothing follows it
readBytesAll(stream, size) ==
    IF Len(stream) < size
    THEN [ok |-> FALSE, bytes |-> stream, rest |-> << >>]
    ELSE [ok |-> TRUE, bytes |-> SubSeq(stream, 1, size),
          rest |-> SubSeq(stream, size + 1, Len(stream))]

\* readMessage when all of stream is at the socket and nothing follows it
readMessageAll(stream) ==
    LET hdr == readBytesAll(stream, LenSize)
    IN  IF ~ hdr.ok THEN [ok |-> FALSE, msg |-> << >>, rest |-> << >>]
        ELSE LET body == readBytesAll(hdr.rest, readUInt32(hdr.bytes))
             IN  [ok |-> body.ok, msg |-> body.bytes, rest |-> body.rest]

InitSrv ==
    /\ endpoint = 0
    /\ sv = [p \in Procs |-> SvOff]
    /\ pings = [p \in Procs |-> << >>]

\* newServer: socket.connectToServer(name); socket.waitForConnected(2000)
Probe(p) ==
    /\ sv[p].pc = "off"
    /\ sv' = [sv EXCEPT ![p].pc = IF Accepting THEN "ping" ELSE "remove",
                        ![p].probe = IF Accepting THEN "connected" ELSE "failed"]
    /\ UNCHANGED << endpoint, pings >>

\* newServer, connected: out << (quint32)0; return server
Ping(p) ==
    /\ sv[p].pc = "ping"
    /\ pings' = [pings EXCEPT ![p] = pings[p] \o pingBytes]
    /\ sv' = [sv EXCEPT ![p].pc = "done"]
    /\ UNCHANGED endpoint

\* newServer, not connected: QLocalServer::removeServer(name)
RemoveServer(p) ==
    /\ sv[p].pc = "remove"
    /\ endpoint' = removeServer(endpoint)
    /\ sv' = [sv EXCEPT ![p].pc = "listen", ![p].removed = TRUE,
                        ![p].removedLive = Accepting]
    /\ UNCHANGED pings

\* newServer, not connected: server->listen(name); return server
Listen(p) ==
    LET res == listen(endpoint, p)
    IN  /\ sv[p].pc = "listen"
        /\ endpoint' = res.owner
        /\ sv' = [sv EXCEPT ![p].pc = "done", ![p].listening = res.ok,
                            ![p].bound = res.ok]
        /\ UNCHANGED pings

\* a listening instance dies: its registration of the name stays behind
Crash(p) ==
    /\ sv[p].pc = "done"
    /\ sv[p].listening
    /\ sv' = [sv EXCEPT ![p].pc = "crashed", ![p].listening = FALSE]
    /\ UNCHANGED << endpoint, pings >>

(***************************************************************************)
(* The storage of the history: operator<< and operator>> of the model.     *)
(***************************************************************************)
\* stream << *item: the serialized bundle of the item, one element of the
\* stream
writeItem(item) == << [bundle |-> item] >>

\* stream >> *item on the element written for an item
readItem(element) == element.bundle

\* the items of rows i.. of the list, written in row order
RECURSIVE writeItemsFrom(_, _)
writeItemsFrom(list, i) ==
    IF ~ (i < Len(list)) THEN << >>
    ELSE writeItem(list[i + 1]) \o writeItemsFrom(list, i + 1)

\* a writer that writes the last row first
RECURSIVE writeModel_reverse(_)
writeModel_reverse(list) ==
    writeUInt32(Len(list)) \o writeItemsFrom(reversed(list), 0)

\* operator<<(stream, model): the length as a 32-bit integer, then the items
\* of rows 0 .. length-1
writeModel(list) ==
    writeUInt32(Len(list)) \o writeItemsFrom(list, 0)

\* operator>>, the loop: item = model.append(); stream >> *item, n times
RECURSIVE readItems(_, _, _)
readItems(list, elements, n) ==
    IF ~ (0 < n) THEN list
    ELSE readItems(Append(list, readItem(Head(elements))), Tail(elements), n - 1)

\* a reader that does not look at the capacity
readModel_noLimit(bytes, list, max) ==
    readItems(list, SubSeq(bytes, LenSize + 1, Len(bytes)),
              readUInt32(bytes) - rowCount(list))

\* operator>>(stream, model): it appends
\* qMin(length, model.maxItems()) - model.rowCount() items
readModel(bytes, list, max) ==
    readItems(list, SubSeq(bytes, LenSize + 1, Len(bytes)),
              Min(readUInt32(bytes), max) - rowCount(list))

\* the storage holds the serialized empty history
InitStore ==
    /\ file = writeModel(<< >>)
    /\ saved = [list |-> << >>, m_max |-> DefaultMax]

\* the history is saved: file << model
WriteModel ==
    /\ file' = writeModel(m_clipboardList)
    /\ saved' = [list |-> m_clipboardList, m_max |-> m_max]
    /\ ret' = FALSE
    /\ emitted' = << >>
    /\ call' = Call("writeModel", EmptyItem, FALSE, 0, 0)
    /\ UNCHANGED << m_clipboardList, m_max, maxItems, commands, m_update, m_id,
                    timerActive, unsaved >>

\* the history is loaded: file >> model; call.row holds model.maxItems()
ReadModel ==
    LET list == readModel(file, m_clipboardList, m_max)
    IN  /\ m_clipboardList' = list
        /\ Modified(list # m_clipboardList)
        /\ ret' = FALSE
        /\ emitted' = << >>
        /\ call' = Call("readModel", EmptyItem, FALSE, m_max, 0)
        /\ UNCHANGED << m_max, maxItems, commands, m_update, m_id, file, saved >>

\* ClipboardBrowser::clear: m->removeRows(0, m->rowCount())
Clear ==
    LET res == removeRows(m_clipboardList, 0, rowCount(m_clipboardList))
    IN  /\ m_clipboardList' = res.list
        /\ ret' = res.ok
        /\ Modified(res.ok)
        /\ emitted' = << >>
        /\ call' = Call("clear", EmptyItem, FALSE, 0, 0)
        /\ UNCHANGED << m_max, maxItems, commands, m_update, m_id >>

(***************************************************************************)
(* hash and cloneData of a QMimeData.                                      *)
(***************************************************************************)
\* the most formats a QMimeData or a QStringList of the checks holds
MaxFormats == 2

\* the format names, as the code points of their characters: "", "a", "A",
\* "aA" and "1"
Mimes == {<< >>, << 97 >>, << 65 >>, << 97, 65 >>, << 49 >>}

\* the payloads of the formats
DataBytes == {<< >>, << 1 >>}

\* a test that takes every character that is not an uppercase letter
isLower_notUpper(c) == ~ (c >= 65 /\ c <= 90)

\* QChar::isLower for the characters of the format names
isLower(c) == c >= 97 /\ c <= 122

\* the QMimeData objects: up to MaxFormats formats with distinct names, in
\* the order of formats(), each with its bytes
MimeDatas ==
    {d \in SeqsUpTo([mime : Mimes, bytes : DataBytes], MaxFormats) :
         \A i, j \in 1 .. Len(d) : i # j => d[i].mime # d[j].mime}

\* the QStringList objects
FormatLists == SeqsUpTo(Mimes, MaxFormats)

\* QMimeData::formats()
formatsOf(data) == [i \in 1 .. Len(data) |-> data[i].mime]

\* QMimeData::hasFormat(mime)
hasFormat(data, mime) == \E i \in 1 .. Len(data) : data[i].mime = mime

\* QMimeData::data(mime): the bytes of the format, an empty QByteArray when
\* the object has no such format
dataOf(data, mime) ==
    IF hasFormat(data, mime)
    THEN data[CHOOSE i \in 1 .. Len(data) : data[i].mime = mime].bytes
    ELSE << >>

\* QMimeData::setData(mime, bytes): replaces the bytes of the format or adds
\* the format after the others
setMimeData(data, mime, bytes) ==
    IF hasFormat(data, mime)
    THEN [i \in 1 .. Len(data) |->
              IF data[i].mime = mime THEN [mime |-> mime, bytes |-> bytes]
              ELSE data[i]]
    ELSE Append(data, [mime |-> mime, bytes |-> bytes])

\* a ^ b on unsigned integers
RECURSIVE bitXor(_, _)
bitXor(a, b) ==
    IF a = 0 THEN b
    ELSE IF b = 0 THEN a
    ELSE (((a % 2) + (b % 2)) % 2) + 2 * bitXor(a \div 2, b \div 2)

\* qHash of a QByteArray and of a QString, from the i-th character on:
\* h = (h << 4) + c; h ^= (h & 0xf0000000) >> 23; h &= 0x0fffffff
RECURSIVE qHashFrom(_, _, _)
qHashFrom(s, i, h) ==
    IF i > Len(s) THEN h
    ELSE LET h1 == h * 16 + s[i]
             g  == h1 \div 268435456
         IN  qHashFrom(s, i + 1, bitXor(h1, g * 32) % 268435456)

qHash(s) == qHashFrom(s, 1, 0)

\* a term that combines the two hashes with ^
hashTerm_xor(bytes, mime) == bitXor(qHash(bytes), qHash(mime))

\* hash: qHash(bytes) + qHash(mime); both are below 2^28, so the sum of
\* the two uint does not wrap
hashTerm(bytes, mime) == qHash(bytes) + qHash(mime)

\* hash, the loop from the i-th format of the list on
RECURSIVE hashFrom(_, _, _, _)
hashFrom(data, formats, i, h) ==
    IF i > Len(formats) THEN h
    ELSE hashFrom(data, formats, i + 1,
                  bitXor(h, hashTerm(dataOf(data, formats[i]), formats[i])))

\* a hash that depends on the order of the formats: the terms are added
\* to twice the hash so far
RECURSIVE hashOrderedFrom(_, _, _, _)
hashOrderedFrom(data, formats, i, h) ==
    IF i > Len(formats) THEN h
    ELSE hashOrderedFrom(data, formats, i + 1,
                         2 * h + hashTerm(dataOf(data, formats[i]), formats[i]))

hash_ordered(data, formats) == hashOrderedFrom(data, formats, 1, 0)

\* uint hash(const QMimeData &data, const QStringList &formats)
hash(data, formats) == hashFrom(data, formats, 1, 0)

\* cloneData with formats, the loop from the i-th format of the list on
RECURSIVE cloneListed(_, _, _, _)
cloneListed(data, formats, i, newdata) ==
    IF i > Len(formats) THEN newdata
    ELSE LET bytes == dataOf(data, formats[i])
         IN  cloneListed(data, formats, i + 1,
                         IF bytes # << >>
                         THEN setMimeData(newdata, formats[i], bytes)
                         ELSE newdata)

\* cloneData without formats, the loop from the i-th format of data on
RECURSIVE cloneLower(_, _, _)
cloneLower(data, i, newdata) ==
    IF i > Len(data) THEN newdata
    ELSE LET mime == formatsOf(data)[i]
         IN  cloneLower(data, i + 1,
                        IF mime # << >> /\ isLower(mime[1])
                        THEN setMimeData(newdata, mime, dataOf(data, mime))
                        ELSE newdata)

\* QMimeData *cloneData(const QMimeData &data, const QStringList *formats);
\* listed is false for a null formats
cloneData(data, listed, formats) ==
    IF listed THEN cloneListed(data, formats, 1, << >>)
    ELSE cloneLower(data, 1, << >>)

\* no function was called
InitData ==
    /\ srcData = << >>
    /\ srcFormats = << >>
    /\ dataOp = "none"
    /\ hashed = 0
    /\ cloned = << >>

\* hash(srcData, srcFormats)
Hash ==
    /\ hashed' = hash(srcData, srcFormats)
    /\ dataOp' = "hash"
    /\ cloned' = << >>
    /\ UNCHANGED << srcData, srcFormats >>

\* cloneData(srcData, &srcFormats), and cloneData(srcData) with listed false
CloneData(listed) ==
    /\ cloned' = cloneData(srcData, listed, srcFormats)
    /\ dataOp' = IF listed THEN "cloneDataListed" ELSE "cloneData"
    /\ hashed' = 0
    /\ UNCHANGED << srcData, srcFormats >>

(***************************************************************************)
(* Specifications.                                                         *)
(***************************************************************************)
vars == << histVars, modelVars, chanVars, srvVars, storeVars, dataVars >>

\* no operation with an index list has run
InitModel ==
    /\ fault = FALSE
    /\ indexList = {}
    /\ key = ""
    /\ found = -1
    /\ moves = << >>

Init == InitHist /\ InitModel /\ InitChan /\ InitSrv /\ InitStore /\ InitData

\* the history under add alone, from an empty history
AddNext ==
    /\ \E data \in Bundles, force \in BOOLEAN : Add(data, force, 0)
    /\ UNCHANGED << modelVars, chanVars, srvVars, storeVars, dataVars >>

SpecAdd == Init /\ [][AddNext]_vars

\* the history under the operations of the browser and of the configuration
HistNext ==
    \/ \E data \in Bundles, force \in BOOLEAN :
           Add(data, force, 0) /\ UNCHANGED << modelVars, chanVars, srvVars, storeVars, dataVars >>
    \/ \E i \in -1 .. Len(m_clipboardList) :
           MoveToClipboard(i) /\ UNCHANGED << modelVars, chanVars, srvVars, storeVars, dataVars >>
    \/ \E max \in 0 .. MaxCap, cmds \in CommandConfigs :
           LoadFromConfiguration(max, cmds) /\ UNCHANGED << modelVars, chanVars, srvVars, storeVars, dataVars >>
    \/ LoadSettings /\ UNCHANGED << modelVars, chanVars, srvVars, storeVars, dataVars >>

SpecHistory == Init /\ [][HistNext]_vars

\* the bundles of the histories the model operations are run on: "A" has a
\* text, "C" and "D" are two bundles without text; "A" and "C" have the same
\* fingerprint
ModelBundles == {"A", "C", "D"}

\* an operation without an index list that stays inside the list
NoIndexList ==
    /\ fault' = FALSE
    /\ indexList' = {}
    /\ key' = ""
    /\ found' = -1
    /\ moves' = << >>

\* the index lists the operations are given: any rows of the history, or
\* row 0 with a row past the end
IndexLists ==
    SUBSET (0 .. Len(m_clipboardList) - 1) \cup {{0, Len(m_clipboardList)}}

\* the operations of the model on a history filled by forced adds
ModelNext ==
    \/ \E data \in ModelBundles :
           Add(data, TRUE, 0) /\ NoIndexList /\ UNCHANGED << chanVars, srvVars, storeVars, dataVars >>
    \/ \E row \in -1 .. Len(m_clipboardList) :
           RemoveRow(row) /\ UNCHANGED << chanVars, srvVars, storeVars, dataVars >>
    \/ \E rows \in IndexLists, compare \in Comparators :
           SortItems(rows, compare) /\ UNCHANGED << chanVars, srvVars, storeVars, dataVars >>
    \/ \E item_hash \in Hashes :
           FindItem(item_hash) /\ UNCHANGED << chanVars, srvVars, storeVars, dataVars >>
    \/ \E rows \in SUBSET (0 .. Len(m_clipboardList) - 1), k \in MoveKeys :
           MoveItems(rows, k) /\ UNCHANGED << chanVars, srvVars, storeVars, dataVars >>

\* the model operations do not look at the commands; the history holds up
\* to MaxCap items
InitOfModel == Init /\ maxItems = MaxCap /\ commands = NoCommand

SpecModel == InitOfModel /\ [][ModelNext]_vars

\* the bundles of the histories that are saved and loaded
StoreBundles == {"A", "B"}

\* the history saved and loaded, under forced adds, clear and changes of the
\* configuration
StoreNext ==
    \/ \E data \in StoreBundles :
           Add(data, TRUE, 0) /\ UNCHANGED << modelVars, chanVars, srvVars, storeVars, dataVars >>
    \/ \E max \in 0 .. MaxCap :
           LoadFromConfiguration(max, NoCommand)
               /\ UNCHANGED << modelVars, chanVars, srvVars, storeVars, dataVars >>
    \/ LoadSettings /\ UNCHANGED << modelVars, chanVars, srvVars, storeVars, dataVars >>
    \/ Clear /\ UNCHANGED << modelVars, chanVars, srvVars, storeVars, dataVars >>
    \/ WriteModel /\ UNCHANGED << modelVars, chanVars, srvVars, dataVars >>
    \/ ReadModel /\ UNCHANGED << modelVars, chanVars, srvVars, dataVars >>

\* saving and loading do not look at the commands
InitOfStore == Init /\ commands = NoCommand

SpecStore == InitOfStore /\ [][StoreNext]_vars

\* one socket with a writing peer and a reader
ChanNext ==
    \/ \E payload \in Payloads :
           WriteMessage(payload) /\ UNCHANGED << histVars, modelVars, srvVars, storeVars, dataVars >>
    \/ \E payload \in Payloads, k \in 0 .. (LenSize + MaxPayload) :
           AbortedWrite(payload, k) /\ UNCHANGED << histVars, modelVars, srvVars, storeVars, dataVars >>
    \/ \E k \in 1 .. MaxStream : Deliver(k) /\ UNCHANGED << histVars, modelVars, srvVars, storeVars, dataVars >>
    \/ ReadMessage /\ UNCHANGED << histVars, modelVars, srvVars, storeVars, dataVars >>
    \/ ReadBytes /\ UNCHANGED << histVars, modelVars, srvVars, storeVars, dataVars >>
    \/ PollFails /\ UNCHANGED << histVars, modelVars, srvVars, storeVars, dataVars >>

SpecChannel == Init /\ [][ChanNext]_vars

\* the processes starting on one endpoint name
SrvNext ==
    \/ \E p \in Procs : Probe(p) /\ UNCHANGED << histVars, modelVars, chanVars, storeVars, dataVars >>
    \/ \E p \in Procs : Ping(p) /\ UNCHANGED << histVars, modelVars, chanVars, storeVars, dataVars >>
    \/ \E p \in Procs : RemoveServer(p) /\ UNCHANGED << histVars, modelVars, chanVars, storeVars, dataVars >>
    \/ \E p \in Procs : Listen(p) /\ UNCHANGED << histVars, modelVars, chanVars, storeVars, dataVars >>
    \/ \E p \in Procs : Crash(p) /\ UNCHANGED << histVars, modelVars, chanVars, storeVars, dataVars >>

SpecServer == Init /\ [][SrvNext]_vars

\* newServer is straight-line code: a process that has called it goes on to
\* its return
newServerStep(p) ==
    /\ Ping(p) \/ RemoveServer(p) \/ Listen(p)
    /\ UNCHANGED << histVars, modelVars, chanVars, storeVars, dataVars >>

SpecServerLive ==
    Init /\ [][SrvNext]_vars /\ \A p \in Procs : WF_vars(newServerStep(p))

\* hash and cloneData called on any QMimeData and any list of formats
DataNext ==
    \/ Hash /\ UNCHANGED << histVars, modelVars, chanVars, srvVars, storeVars >>
    \/ \E listed \in BOOLEAN :
           CloneData(listed) /\ UNCHANGED << histVars, modelVars, chanVars, srvVars, storeVars >>

\* the arguments of the calls are drawn from the QMimeData objects and the
\* lists of formats; the history stays as it is constructed
InitOfData ==
    /\ InitHist /\ maxItems = MaxCap /\ commands = NoCommand
    /\ InitModel /\ InitChan /\ InitSrv /\ InitStore
    /\ srcData \in MimeDatas
    /\ srcFormats \in FormatLists
    /\ dataOp = "none"
    /\ hashed = 0
    /\ cloned = << >>

SpecData == InitOfData /\ [][DataNext]_vars

(***************************************************************************)
(* Properties.                                                             *)
(***************************************************************************)
\* list is what is left of full after rows were taken from its tail only
IsFrontOf(list, full) ==
    Len(list) <= Len(full) /\ list = SubSeq(full, 1, Len(list))

\* the sequence s without its row i
Without(s, i) ==
    [j \in 1 .. Len(s) - 1 |-> IF j <= i THEN s[j] ELSE s[j + 1]]

\* how often x occurs in the sequence s
Count(s, x) == Cardinality({j \in 1 .. Len(s) : s[j] = x})

\* the last operation was add at the front
AddedAtFront == call.op = "add" /\ call.row = 0

\* C1: under add alone, from an empty history, the length never exceeds
\* maxItems, and a call that returns true leaves the new item followed by
\* the old items with rows taken from the tail only (at most the last one);
\* a call that returns false leaves the history as it was.
C1_CapacityInvariant ==
    /\ Len(m_clipboardList) <= maxItems
    /\ (AddedAtFront /\ ret) =>
           /\ IsFrontOf(m_clipboardList, << call.data >> \o call.old)
           /\ Len(m_clipboardList) >= Len(call.old)
    /\ (AddedAtFront /\ ~ ret) => m_clipboardList = call.old

\* C1 happens: an add on a full history of three items evicted the oldest one
C1_Witness ==
    /\ AddedAtFront /\ ret
    /\ maxItems = 3 /\ Len(call.old) = 3
    /\ call.old[3] # call.old[2]
    /\ m_clipboardList = << call.data, call.old[1], call.old[2] >>

\* C7: add(x, force=false) with x equal to the item at index 0 of a
\* non-empty history returns false and leaves the history unchanged.
C7_DuplicateRejected ==
    (/\ AddedAtFront /\ ~ call.force
     /\ Len(call.old) > 0 /\ call.data = call.old[1])
    => (~ ret /\ m_clipboardList = call.old)

\* C7 happens: a duplicate of item 0 was offered to a history of one item
\* with the limit not reached
C7_Witness ==
    /\ AddedAtFront /\ ~ call.force
    /\ Len(call.old) = 1 /\ call.data = call.old[1]
    /\ maxItems > 1
    /\ ~ ret /\ m_clipboardList = call.old

\* C8: add(x, force=true) at the front returns true, x is at
\* index 0, the old item of index i that survives is at index i+1, and the
\* length is min(old length + 1, maxItems).
C8_ForcedAdd ==
    (AddedAtFront /\ call.force) =>
        /\ ret
        /\ Len(m_clipboardList) = Min(Len(call.old) + 1, maxItems)
        /\ Len(m_clipboardList) >= 1
        /\ m_clipboardList[1] = call.data
        /\ \A i \in 1 .. Len(m_clipboardList) - 1 : m_clipboardList[i + 1] = call.old[i]

\* C9 as claimed: add(x, force=false) returns false without a change only
\* when the history is non-empty and x equals item 0; in every other case
\* it returns true with x at index 0.
C9_RejectsOnlyDuplicate ==
    (AddedAtFront /\ ~ call.force) =>
        IF Len(call.old) > 0 /\ call.data = call.old[1]
        THEN ~ ret /\ m_clipboardList = call.old
        ELSE ret /\ Len(m_clipboardList) >= 1 /\ m_clipboardList[1] = call.data

\* a command of the list with ignore set matches the data: its text matches
\* the command's re and its window title is null or matches wndre
IgnoredByCommand(cmds, data) ==
    /\ hasText(data)
    /\ \E i \in 1 .. Len(cmds) :
           cmds[i].ignore /\ data \in cmds[i].re /\ data \in cmds[i].wndre

\* C9, amended: add(x, force=false) returns false without a change when the
\* history is non-empty and x equals item 0, and also when x has text and a
\* command with ignore set matches it; in every other case it returns true,
\* having put x at index 0 in front of the old items and then taken the
\* last row if the length exceeded maxItems.
C9_RejectsDuplicateOrIgnored ==
    (AddedAtFront /\ ~ call.force) =>
        IF \/ (Len(call.old) > 0 /\ call.data = call.old[1])
           \/ IgnoredByCommand(commands, call.data)
        THEN ~ ret /\ m_clipboardList = call.old
        ELSE /\ ret
             /\ LET full == << call.data >> \o call.old
                IN  m_clipboardList =
                        IF Len(full) > maxItems THEN SubSeq(full, 1, Len(full) - 1)
                        ELSE full

\* C9 happens: a bundle that differs from item 0 was refused because of an
\* ignore command, and (in another call) one that no ignore command matches
\* was inserted in front of a different item
C9_WitnessIgnored ==
    /\ AddedAtFront /\ ~ call.force
    /\ Len(call.old) > 0 /\ call.data # call.old[1]
    /\ IgnoredByCommand(commands, call.data)
    /\ ~ ret /\ m_clipboardList = call.old

\* C10: for 0 <= index < length, moveToClipboard(index) -- move(index, 0) --
\* returns true unless index is 0, leaves the item of the index at index 0
\* followed by all other items in their old order, and keeps the multiset.
C10_MoveToFront ==
    (/\ call.op = "moveToClipboard"
     /\ 0 <= call.row /\ call.row < Len(call.old))
    => /\ ret = (call.row # 0)
       /\ m_clipboardList = << call.old[call.row + 1] >> \o Without(call.old, call.row)
       /\ \A x \in Bundles : Count(m_clipboardList, x) = Count(call.old, x)

\* C10 happens: the last of three different items was moved to the front
C10_Witness ==
    /\ call.op = "moveToClipboard" /\ call.row = 2 /\ ret
    /\ Len(call.old) = 3
    /\ Cardinality({call.old[1], call.old[2], call.old[3]}) = 3
    /\ m_clipboardList = << call.old[3], call.old[1], call.old[2] >>

(***************************************************************************)
(* newServer.                                                              *)
(***************************************************************************)
\* the processes other than p and q have not started
OnlyStarted(p, q) ==
    \A r \in Procs \ {p, q} : sv[r].pc = "off"

\* C2: when two processes run newServer on the same name and both see the
\* probe fail, then once both have returned exactly one of them is listening,
\* and neither has removed the registration of a live listener.
C2_ExactlyOneListener ==
    \A p, q \in Procs :
        ( /\ p # q
          /\ OnlyStarted(p, q)
          /\ sv[p].pc = "done" /\ sv[p].probe = "failed"
          /\ sv[q].pc = "done" /\ sv[q].probe = "failed" )
        => /\ sv[p].listening # sv[q].listening
           /\ ~ sv[p].removedLive
           /\ ~ sv[q].removedLive

\* C3: a process whose probe connected writes one frame of length 0 (four
\* zero bytes, which readMessage decodes as a successful empty message with
\* nothing left over), never removes the registration, never listens and
\* never owns the name.
C3_DetectPingsOnly ==
    \A p \in Procs :
        sv[p].probe = "connected"
        => /\ sv[p].pc \in {"ping", "done"}
           /\ ~ sv[p].listening
           /\ ~ sv[p].removed
           /\ ~ sv[p].bound
           /\ endpoint # p
           /\ sv[p].pc = "ping" => pings[p] = << >>
           /\ sv[p].pc = "done" =>
                 /\ pings[p] = << 0, 0, 0, 0 >>
                 /\ readMessageAll(pings[p]) =
                        [ok |-> TRUE, msg |-> << >>, rest |-> << >>]

\* a process has detected the running instance and pinged it, and that
\* instance is still the listening owner of the name
C3_Witness ==
    \E p \in Procs :
        /\ sv[p].probe = "connected"
        /\ sv[p].pc = "done"
        /\ endpoint # 0
        /\ endpoint # p
        /\ sv[endpoint].pc = "done"
        /\ sv[endpoint].listening

(***************************************************************************)
(* readMessage and writeMessage.                                           *)
(***************************************************************************)
\* the frame of the first payload sent
FirstFrame == writeMessage(sent[1])

\* C4: the first readMessage on a channel whose first frame is
\* writeMessage(b) returns true only with exactly b, and, however the bytes
\* were split on the way, it is never left waiting nor failed once all the
\* bytes of the frame have been read from the socket.
C4_RoundTrip ==
    /\ (nread = 1 /\ rdRet = "true") => (Len(sent) >= 1 /\ msg = sent[1])
    /\ (nread = 1 /\ rdRet # "true" /\ Len(sent) >= 1)
           => consumed < Len(FirstFrame)
    /\ (nread = 1 /\ rd.pc # "idle" /\ Len(sent) >= 1)
           => rd.read < rd.size \/ rd.size = 0

\* the first readMessage has returned a payload of the greatest length
C4_Witness ==
    /\ nread = 1
    /\ rdRet = "true"
    /\ Len(msg) = MaxPayload
    /\ msg = sent[1]
    /\ consumed = Len(FirstFrame)

\* C5: as long as no readMessage has failed, the payloads returned are the
\* payloads sent, in send order, one per call, and when a call has returned
\* the bytes read from the socket are exactly the frames of the payloads
\* returned, none of the next frame.
C5_InOrderOwnFrame ==
    ~ pollFailed
    => /\ Len(received) <= Len(sent)
       /\ received = SubSeq(sent, 1, Len(received))
       /\ rd.pc = "idle" => consumed = FramesLen(sent, Len(received))
       /\ rd.pc # "idle" =>
             /\ consumed >= FramesLen(sent, Len(received))
             /\ Len(received) < Len(sent) =>
                    consumed < FramesLen(sent, Len(received) + 1)

\* two different payloads have been returned by two calls, the second one
\* with bytes of its frame at the socket when the first one returned
C5_Witness ==
    /\ ~ pollFailed
    /\ Len(received) = 2
    /\ received[1] # received[2]
    /\ received[1] # << >>
    /\ received[2] # << >>
    /\ rd.pc = "idle"

\* C6: when readMessage returns false after the length has been read, the
\* buffer of the caller holds no byte of the incomplete payload.
C6_NoPartialPayload ==
    (rdRet = "false" /\ failedIn = "payload") => msg = << >>

\* readMessage has failed inside the payload with bytes of it in *msg
C6_PartialDelivered ==
    /\ rdRet = "false"
    /\ failedIn = "payload"
    /\ msg # << >>

(***************************************************************************)
(* Range errors of move.                                                   *)
(***************************************************************************)
\* C11: for every index outside [0, length), negative ones included,
\* moveToClipboard(index) -- move(index, 0) -- returns false and leaves the
\* history as it was.
C11_MoveOutOfRange ==
    (/\ call.op = "moveToClipboard"
     /\ (call.row < 0 \/ call.row >= Len(call.old)))
    => (~ ret /\ m_clipboardList = call.old)

(***************************************************************************)
(* Removing a row.                                                         *)
(***************************************************************************)
\* C12: removeRow(index) for an index outside [0, length), negative ones
\* included, fails with the history unchanged and no access outside the
\* list; for an index inside the range it returns true having deleted that
\* one item and kept the order of the others.
C12_RemoveRow ==
    call.op = "removeRow"
    => /\ ~ fault
       /\ IF call.row < 0 \/ call.row >= Len(call.old)
          THEN ~ ret /\ m_clipboardList = call.old
          ELSE ret /\ m_clipboardList = Without(call.old, call.row)

(***************************************************************************)
(* setMaxItems.                                                            *)
(***************************************************************************)
\* C13: for max >= 0, setMaxItems(max) (called by loadSettings) leaves a
\* history longer than max with exactly the items of its rows 0..max-1 in
\* their order, and leaves a history of length <= max as it was; the
\* capacity of the model is max afterwards.
C13_SetMaxItemsCrops ==
    (call.op = "loadSettings" /\ call.row >= 0)
    => /\ m_max = call.row
       /\ IF Len(call.old) > call.row
          THEN /\ Len(m_clipboardList) = call.row
               /\ \A i \in 1 .. call.row : m_clipboardList[i] = call.old[i]
          ELSE m_clipboardList = call.old

\* C13 happens: a history of three different items was cropped to its first
C13_Witness ==
    /\ call.op = "loadSettings" /\ call.row = 1
    /\ Len(call.old) = 3
    /\ Cardinality({call.old[1], call.old[2], call.old[3]}) = 3
    /\ m_clipboardList = << call.old[1] >>

(***************************************************************************)
(* sortItems.                                                              *)
(***************************************************************************)
\* the last operation was sortItems with rows of the history only
SortedInRange ==
    call.op = "sortItems" /\ \A row \in indexList : row < Len(call.old)

\* the orders of the rows selected that the history is a result of: the
\* item of the i-th row selected, in ascending order, is the old item of
\* row ord[i]
SortOrders ==
    {ord \in Orders(indexList) :
         \A i \in 1 .. Cardinality(indexList) :
             m_clipboardList[sortedRows(indexList)[i] + 1] = call.old[ord[i] + 1]}

\* ord is in the order of the comparator: no item is less than one before it
InComparatorOrder(ord) ==
    \A i, j \in 1 .. Cardinality(indexList) :
        i < j => ~ lessThan(key, << ord[j], call.old[ord[j] + 1] >>,
                                 << ord[i], call.old[ord[i] + 1] >>)

\* ord keeps the old relative order of the items the comparator treats as
\* equal
IsStable(ord) ==
    \A i, j \in 1 .. Cardinality(indexList) :
        ( /\ i < j
          /\ ~ lessThan(key, << ord[i], call.old[ord[i] + 1] >>,
                             << ord[j], call.old[ord[j] + 1] >>)
          /\ ~ lessThan(key, << ord[j], call.old[ord[j] + 1] >>,
                             << ord[i], call.old[ord[i] + 1] >>) )
        => ord[i] < ord[j]

\* C14: sortItems leaves every item of a row that is not in the index list
\* at its row, the rows of the index list hold afterwards the items they
\* held before, and read in ascending row order these items are in the
\* order of the comparator.
C14_SortFrame ==
    SortedInRange
    => /\ Len(m_clipboardList) = Len(call.old)
       /\ \A r \in 0 .. Len(call.old) - 1 :
              r \notin indexList => m_clipboardList[r + 1] = call.old[r + 1]
       /\ \E ord \in SortOrders : InComparatorOrder(ord)

\* C14 happens: rows 0 and 2 of [A, C, D] were sorted by text, row 1 stayed
C14_Witness ==
    /\ SortedInRange
    /\ key = "alphaSort"
    /\ indexList = {0, 2}
    /\ call.old = << "A", "C", "D" >>
    /\ m_clipboardList = << "D", "C", "A" >>

\* C15: sortItems is stable: the history is a result of an order of the
\* rows selected that is in the order of the comparator and keeps the old
\* relative order of the items the comparator treats as equal.
C15_SortStable ==
    SortedInRange => \E ord \in SortOrders : InComparatorOrder(ord) /\ IsStable(ord)

(***************************************************************************)
(* findItem.                                                               *)
(***************************************************************************)
\* the rows of the history whose item has the fingerprint looked for
RowsWithHash ==
    {r \in 0 .. Len(m_clipboardList) - 1 :
         dataHash(m_clipboardList[r + 1]) = call.row}

\* C16: findItem(fp) returns the lowest row whose item has the fingerprint
\* fp, returns -1 exactly when no item of the history has it, and leaves the
\* history as it was.
C16_FindLowest ==
    call.op = "findItem"
    => /\ m_clipboardList = call.old
       /\ (found = -1) <=> (RowsWithHash = {})
       /\ found # -1 => /\ found \in RowsWithHash
                        /\ \A r \in RowsWithHash : found <= r

\* C16 happens: two different items of rows 1 and 2 have the fingerprint,
\* the item of row 0 has not, and findItem returned 1
C16_Witness ==
    /\ call.op = "findItem"
    /\ RowsWithHash = {1, 2}
    /\ m_clipboardList[2] # m_clipboardList[3]
    /\ found = 1

(***************************************************************************)
(* moveItems.                                                              *)
(***************************************************************************)
\* the i-th call of move of the batch was carried out and took an item from
\* row 0, put one at row 0, or went past the last row
MoveCrossed(i) ==
    /\ moves[i].ok
    /\ \/ moves[i].from = 0
       \/ moves[i].to = 0
       \/ moves[i].to > moves[i].rows - 1

\* C17: moveItems returns true if and only if some move of the batch that
\* was carried out had source row 0, had destination row 0, or went past
\* the last row.
C17_MoveItemsResult ==
    call.op = "moveItems"
    => (ret <=> \E i \in 1 .. Len(moves) : MoveCrossed(i))

\* C17 happens both ways: Key_Up on rows 0 and 2 of three items returned
\* true
C17_Witness ==
    /\ call.op = "moveItems"
    /\ key = "Key_Up"
    /\ indexList = {0, 2}
    /\ Len(call.old) = 3
    /\ Len(moves) = 2
    /\ moves[1].from = 0 /\ moves[1].to = -1
    /\ ret

(***************************************************************************)
(* Saving and loading the history.                                         *)
(***************************************************************************)
\* the last operation loaded the stored history into an empty history
LoadedIntoEmpty ==
    call.op = "readModel" /\ call.old = << >>

\* C18: a history of N <= capacity items that was saved and is loaded into
\* an empty history of the same capacity comes back as it was: the same
\* length and the same bundle at every row.
C18_SaveLoadRoundTrip ==
    (/\ LoadedIntoEmpty
     /\ saved.m_max = m_max
     /\ Len(saved.list) <= m_max)
    => m_clipboardList = saved.list

\* C18 happens: a full history of different items was saved, and loaded
\* into an empty history of the same capacity
C18_Witness ==
    /\ LoadedIntoEmpty
    /\ saved.m_max = m_max
    /\ m_max = 2
    /\ saved.list = << "A", "B" >>
    /\ m_clipboardList = << "A", "B" >>

\* C19: a load into an empty history of capacity c restores exactly the
\* first min(N, c) of the N items stored, in their order; after any load
\* the length is at most the capacity, and the items that were there before
\* the load are at their rows.
C19_LoadTruncates ==
    call.op = "readModel"
    => /\ call.old = << >> =>
              m_clipboardList =
                  SubSeq(saved.list, 1, Min(Len(saved.list), m_max))
       /\ Len(m_clipboardList) <= m_max
       /\ IsFrontOf(call.old, m_clipboardList)

(***************************************************************************)
(* newServer after a crash.                                                *)
(***************************************************************************)
\* the name is registered to an instance that crashed, and q is the only
\* process that has started since: its probe has failed, all others have
\* crashed or have not started
StaleFor(q) ==
    /\ endpoint # 0
    /\ sv[endpoint].pc = "crashed"
    /\ sv[q].pc = "remove"
    /\ \A r \in Procs \ {q} : sv[r].pc \in {"off", "crashed"}

\* q has removed the registration and listens on the name
TookOver(q) ==
    /\ sv[q].pc = "done"
    /\ sv[q].removed
    /\ sv[q].listening
    /\ endpoint = q

\* another process has called newServer
OtherStarted(q) ==
    \E r \in Procs \ {q} : sv[r].pc \notin {"off", "crashed"}

\* C20: when a crashed instance has left the registration of the name
\* behind and one process calls newServer, its probe having failed, then
\* unless another process starts it removes the registration and ends up
\* listening on the name.
C20_StaleTakeover ==
    \A q \in Procs : StaleFor(q) ~> (TookOver(q) \/ OtherStarted(q))

\* C20 happens: an instance has crashed, and the only other process that
\* started has removed the registration and listens on the name
C20_Witness ==
    \E p, q \in Procs :
        /\ p # q
        /\ sv[p].pc = "crashed"
        /\ TookOver(q)
        /\ ~ sv[q].removedLive
        /\ \A r \in Procs \ {p, q} : sv[r].pc = "off"

(***************************************************************************)
(* The browser: selection by fingerprint and the keys that move items.     *)
(***************************************************************************)

\* ClipboardBrowser::select(item_hash): the row found and what m->move(row, 0)
\* returned
select(list, item_hash) ==
    LET row == findItem(list, item_hash)
    IN  IF row < 0 THEN [ok |-> FALSE, list |-> list, row |-> row]
        ELSE [ok |-> move(list, row, 0).ok, list |-> move(list, row, 0).list,
              row |-> row]

\* ClipboardBrowser::keyPressEvent, CTRL with Key_Down, Key_Up, Key_End or
\* Key_Home: autoUpdate() && m->moveItems(selectedIndexes(), key), then
\* updateClipboard(); moveItems is not called when autoUpdate() is false
keyMoveItems(list, rows, k, update) ==
    LET res == moveItems(list, rows, k)
    IN  IF ~ update
        THEN [list |-> list, moves |-> << >>, emitted |-> << >>, called |-> FALSE]
        ELSE [list |-> res.list, moves |-> res.moves,
              emitted |-> IF res.ret THEN updateClipboard(res.list) ELSE << >>,
              called |-> TRUE]

\* ClipboardBrowser::select(item_hash); found records the row of findItem
Select(item_hash) ==
    LET res == select(m_clipboardList, item_hash)
    IN  /\ m_clipboardList' = res.list
        /\ ret' = res.ok
        /\ found' = res.row
        /\ Modified(res.ok)
        /\ fault' = FALSE
        /\ indexList' = {}
        /\ key' = ""
        /\ moves' = << >>
        /\ emitted' = << >>
        /\ call' = Call("select", EmptyItem, FALSE, item_hash, 0)
        /\ UNCHANGED << m_max, maxItems, commands, m_update, m_id >>

\* ClipboardBrowser::keyPressEvent for CTRL and a key that moves items, with
\* the rows of the selection; nothing happens while an item is edited.
\* call.force holds editing(), ret records that moveItems was called
KeyPressEvent(rows, k, editing) ==
    LET res == IF editing
               THEN [list |-> m_clipboardList, moves |-> << >>,
                     emitted |-> << >>, called |-> FALSE]
               ELSE keyMoveItems(m_clipboardList, rows, k, m_update)
    IN  /\ m_clipboardList' = res.list
        /\ moves' = res.moves
        /\ emitted' = res.emitted
        /\ ret' = res.called
        /\ Modified(\E i \in 1 .. Len(res.moves) : res.moves[i].ok)
        /\ fault' = FALSE
        /\ indexList' = rows
        /\ key' = k
        /\ found' = -1
        /\ call' = Call("keyPressEvent", EmptyItem, editing, 0, 0)
        /\ UNCHANGED << m_max, maxItems, commands, m_update, m_id >>

\* the browser under forced adds, the automatic update of the clipboard
\* switched on and off, moves to the clipboard, selection by fingerprint
\* and the keys that move the selected items
BrowserNext ==
    \/ \E data \in ModelBundles :
           Add(data, TRUE, 0) /\ NoIndexList /\ UNCHANGED << chanVars, srvVars, storeVars, dataVars >>
    \/ \E update \in BOOLEAN :
           SetAutoUpdate(update) /\ NoIndexList /\ UNCHANGED << chanVars, srvVars, storeVars, dataVars >>
    \/ \E i \in -1 .. Len(m_clipboardList) :
           MoveToClipboard(i) /\ NoIndexList /\ UNCHANGED << chanVars, srvVars, storeVars, dataVars >>
    \/ \E item_hash \in Hashes :
           Select(item_hash) /\ UNCHANGED << chanVars, srvVars, storeVars, dataVars >>
    \/ \E rows \in SUBSET (0 .. Len(m_clipboardList) - 1), k \in MoveKeys,
          editing \in BOOLEAN :
           KeyPressEvent(rows, k, editing) /\ UNCHANGED << chanVars, srvVars, storeVars, dataVars >>

\* the browser does not look at the commands here; the history holds up to
\* MaxCap items
InitOfBrowser == Init /\ maxItems = MaxCap /\ commands = NoCommand

SpecBrowser == InitOfBrowser /\ [][BrowserNext]_vars

\* the bundles of the scenario: "A" and "C" have the same fingerprint, "B"
\* and "D" have fingerprints of their own
ScenarioBundles == {"A", "B", "C", "D"}

\* forced adds, moves to the clipboard and searches by fingerprint
ScenarioNext ==
    \/ \E data \in ScenarioBundles :
           Add(data, TRUE, 0) /\ NoIndexList /\ UNCHANGED << chanVars, srvVars, storeVars, dataVars >>
    \/ \E i \in -1 .. Len(m_clipboardList) :
           MoveToClipboard(i) /\ NoIndexList /\ UNCHANGED << chanVars, srvVars, storeVars, dataVars >>
    \/ \E item_hash \in Hashes :
           FindItem(item_hash) /\ UNCHANGED << chanVars, srvVars, storeVars, dataVars >>

\* the scenario starts as the browser does
InitOfScenario == InitOfBrowser

SpecScenario == InitOfScenario /\ [][ScenarioNext]_vars

(***************************************************************************)
(* Moves to the front and the clipboard.                                   *)
(***************************************************************************)
\* the operation that ran last moved an item to row 0 of the history
MovedToFront ==
    \/ call.op \in {"moveToClipboard", "select"} /\ ret
    \/ call.op = "keyPressEvent" /\ \E i \in 1 .. Len(moves) : MoveCrossed(i)

\* the one signal changeClipboard with the item that is now at row 0
FrontToClipboard == << << "changeClipboard", m_clipboardList[1] >> >>

\* C21: every operation that moves an item to row 0 of the history
\* (moveToClipboard, select by fingerprint, a batched move that changes
\* row 0) is followed by the signal changeClipboard with the item now at
\* row 0.
C21_MoveToFrontNotifies ==
    MovedToFront => emitted = FrontToClipboard

\* C21 as the code has it: moveToClipboard that moved an item to row 0 sends
\* changeClipboard with the item now at row 0 exactly when the automatic
\* update is on; select by fingerprint sends nothing; a batched move by key
\* that changed row 0 ran with the automatic update on and sends
\* changeClipboard with the item now at row 0.
C21_NotifiesWhenAutoUpdate ==
    /\ (call.op = "moveToClipboard" /\ ret)
           => emitted = (IF m_update THEN FrontToClipboard ELSE << >>)
    /\ (call.op = "select" /\ ret) => emitted = << >>
    /\ (call.op = "keyPressEvent" /\ \E i \in 1 .. Len(moves) : MoveCrossed(i))
           => m_update /\ emitted = FrontToClipboard

\* C21 happens: with the automatic update on, moveToClipboard(2) on three
\* items, the last differing from the first, sent the new first item
C21_Witness ==
    /\ call.op = "moveToClipboard"
    /\ call.row = 2
    /\ Len(call.old) = 3
    /\ call.old[3] # call.old[1]
    /\ m_update
    /\ ret
    /\ emitted = << << "changeClipboard", call.old[3] >> >>

(***************************************************************************)
(* hash.                                                                   *)
(***************************************************************************)
\* the formats of the list that the QMimeData has, in the order of the list
RECURSIVE presentFormats(_, _)
presentFormats(data, formats) ==
    IF formats = << >> THEN << >>
    ELSE IF hasFormat(data, Head(formats))
    THEN << Head(formats) >> \o presentFormats(data, Tail(formats))
    ELSE presentFormats(data, Tail(formats))

\* the XOR, over the formats of the list that the QMimeData has, of
\* (hash of the bytes XOR hash of the name)
RECURSIVE XorOfPresent(_, _)
XorOfPresent(data, formats) ==
    IF formats = << >> THEN 0
    ELSE IF hasFormat(data, Head(formats))
    THEN bitXor(bitXor(qHash(dataOf(data, Head(formats))), qHash(Head(formats))),
                XorOfPresent(data, Tail(formats)))
    ELSE XorOfPresent(data, Tail(formats))

\* the XOR, over all formats of the list, of (hash of the bytes + hash of
\* the name), the bytes of a format that the QMimeData lacks being empty
RECURSIVE XorOfSums(_, _)
XorOfSums(data, formats) ==
    IF formats = << >> THEN 0
    ELSE bitXor(qHash(dataOf(data, Head(formats))) + qHash(Head(formats)),
                XorOfSums(data, Tail(formats)))

\* C22: hash(data, formats) is the XOR, over exactly the requested formats
\* that data has, of (hash of the bytes XOR hash of the name); a requested
\* format that data lacks contributes nothing, so the hash equals the hash
\* over only the requested formats that data has.
C22_XorOfPresentFormats ==
    dataOp = "hash"
    => /\ hashed = XorOfPresent(srcData, srcFormats)
       /\ hashed = hash(srcData, presentFormats(srcData, srcFormats))

\* C22 as the code has it: hash(data, formats) is the XOR, over every
\* requested format, of (hash of the bytes + hash of the name); a requested
\* format that data lacks contributes the hash of empty bytes + the hash of
\* its name.
C22_XorOfSumsOfAllFormats ==
    dataOp = "hash" => hashed = XorOfSums(srcData, srcFormats)

\* C22 happens: "a" with the byte 1 hashed over the formats "a" and "A",
\* of which data lacks "A": (1 + 97) ^ (0 + 65) = 35
C22_Witness ==
    /\ dataOp = "hash"
    /\ srcData = << [mime |-> << 97 >>, bytes |-> << 1 >>] >>
    /\ srcFormats = << << 97 >>, << 65 >> >>
    /\ hashed = 35

\* C23: for every QMimeData and every list of formats, any order of the
\* formats inside the QMimeData and any order of the list give the same
\* hash.
C23_OrderIndependent ==
    dataOp = "hash"
    => \A p \in Permutations(1 .. Len(srcData)),
          q \in Permutations(1 .. Len(srcFormats)) :
           hash([i \in 1 .. Len(srcData) |-> srcData[p[i]]],
                [i \in 1 .. Len(srcFormats) |-> srcFormats[q[i]]]) = hashed

\* C23 happens: two formats with different bytes, hashed over the two in
\* the other order
C23_Witness ==
    /\ dataOp = "hash"
    /\ srcData = << [mime |-> << 97 >>, bytes |-> << 1 >>],
                    [mime |-> << 65 >>, bytes |-> << >>] >>
    /\ srcFormats = << << 65 >>, << 97 >> >>
    /\ hashed = hash(<< srcData[2], srcData[1] >>, << << 97 >>, << 65 >> >>)
    /\ hashed # 0

(***************************************************************************)
(* cloneData.                                                              *)
(***************************************************************************)
\* the format name has an uppercase letter
HasUppercase(mime) == \E k \in 1 .. Len(mime) : mime[k] >= 65 /\ mime[k] <= 90

\* the format name starts with a lowercase letter
StartsLowercase(mime) == mime # << >> /\ mime[1] >= 97 /\ mime[1] <= 122

\* the formats of data, each with its bytes, whose names start with a
\* lowercase letter, in their order
RECURSIVE LowercaseFormats(_)
LowercaseFormats(data) ==
    IF data = << >> THEN << >>
    ELSE IF StartsLowercase(Head(data).mime)
    THEN << Head(data) >> \o LowercaseFormats(Tail(data))
    ELSE LowercaseFormats(Tail(data))

\* C24: cloneData without a list of formats drops any format whose name
\* contains uppercase letters: no format name in the clone contains an
\* uppercase letter, and every format of the source whose name is not
\* empty and has no uppercase letter is in the clone with the same bytes.
C24_DropsUppercase ==
    dataOp = "cloneData"
    => /\ \A i \in 1 .. Len(cloned) : ~ HasUppercase(cloned[i].mime)
       /\ \A j \in 1 .. Len(srcData) :
              (srcData[j].mime # << >> /\ ~ HasUppercase(srcData[j].mime))
              => \E i \in 1 .. Len(cloned) : cloned[i] = srcData[j]

\* C24 as the code has it: cloneData without a list of formats keeps
\* exactly the formats whose name starts with a lowercase letter, in their
\* order and with the same bytes; it drops a format whose name is empty or
\* starts with any other character, and keeps one with an uppercase letter
\* after the first character.
C24_KeepsLowercaseFirst ==
    dataOp = "cloneData" => cloned = LowercaseFormats(srcData)

\* C24 happens: of the formats "aA" and "A" the clone has "aA"
C24_Witness ==
    /\ dataOp = "cloneData"
    /\ srcData = << [mime |-> << 97, 65 >>, bytes |-> << 1 >>],
                    [mime |-> << 65 >>, bytes |-> << 1 >>] >>
    /\ cloned = << [mime |-> << 97, 65 >>, bytes |-> << 1 >>] >>

(***************************************************************************)
(* The scenario of four forced adds, a move to the front and a search.     *)
(***************************************************************************)
\* the last operation was the forced add of data at row 0 of the history
\* old, with maxItems 3
ForcedAddOf(data, old) ==
    /\ call.op = "add" /\ call.force /\ call.row = 0
    /\ call.data = data
    /\ call.old = old
    /\ maxItems = 3

\* the forced adds of A, B, C and D, from an empty history with maxItems 3,
\* give [A], [B, A], [C, B, A] and [D, C, B]
ScenarioAdds ==
    /\ ForcedAddOf("A", << >>) => m_clipboardList = << "A" >>
    /\ ForcedAddOf("B", << "A" >>) => m_clipboardList = << "B", "A" >>
    /\ ForcedAddOf("C", << "B", "A" >>) => m_clipboardList = << "C", "B", "A" >>
    /\ ForcedAddOf("D", << "C", "B", "A" >>) => m_clipboardList = << "D", "C", "B" >>

\* the last operation was moveToClipboard(1) on the history [D, C, B]
ScenarioMove ==
    /\ call.op = "moveToClipboard"
    /\ call.row = 1
    /\ call.old = << "D", "C", "B" >>

\* the last operation was findItem of the hash of D on the history old
ScenarioFind(old) ==
    /\ call.op = "findItem"
    /\ call.row = dataHash("D")
    /\ call.old = old

\* C25: with maxItems 3 and an empty history, the forced adds of A, B, C
\* and D in that order give [D, C, B]; moveToClipboard(1) then gives
\* [B, D, C]; and findItem of the hash of D then returns row 1.
C25_Scenario ==
    /\ ScenarioAdds
    /\ ScenarioMove => m_clipboardList = << "B", "D", "C" >>
    /\ ScenarioFind(<< "B", "D", "C" >>) => found = 1

\* C25 as the code has it: the forced adds give [D, C, B]; the item at
\* row 1 is C, and moveToClipboard(1) gives [C, D, B]; findItem of the hash
\* of D then returns row 1.
C25_ScenarioMovesRow1 ==
    /\ ScenarioAdds
    /\ ScenarioMove => m_clipboardList = << "C", "D", "B" >>
    /\ ScenarioFind(<< "C", "D", "B" >>) => found = 1

\* C25 happens: moveToClipboard(1) ran on [D, C, B] and gave [C, D, B]
C25_Witness ==
    /\ ScenarioMove
    /\ ret
    /\ m_clipboardList = << "C", "D", "B" >>

(***************************************************************************)
(* move(0, 0).                                                             *)
(***************************************************************************)
\* C26: moveToClipboard(0), that is move(0, 0), never changes the order:
\* on every non-empty history it leaves every item at its row.
C26_MoveZeroKeepsOrder ==
    (call.op = "moveToClipboard" /\ call.row = 0 /\ call.old # << >>)
    => m_clipboardList = call.old

\* C26 happens: moveToClipboard(0) ran on three items, the first two of
\* them different
C26_Witness ==
    /\ call.op = "moveToClipboard"
    /\ call.row = 0
    /\ Len(call.old) = 3
    /\ call.old[1] # call.old[2]
    /\ m_clipboardList = call.old

(***************************************************************************)
(* The keys that move the selected items.                                  *)
(***************************************************************************)
\* the last operation was CTRL with a key that moves items, pressed with a
\* non-empty selection while no item was edited
MoveKeyPressed ==
    /\ call.op = "keyPressEvent"
    /\ ~ call.force
    /\ indexList # {}

\* C27: CTRL with Key_Up, Key_Down, Key_Home or Key_End, with a non-empty
\* selection and no editor open, moves the selected items as moveItems
\* does, whatever the automatic update of the clipboard is set to; the
\* setting decides only whether changeClipboard is sent.
C27_KeysMoveForEveryAutoUpdate ==
    MoveKeyPressed
    => /\ m_clipboardList = moveItems(call.old, indexList, key).list
       /\ ~ m_update => emitted = << >>

(***************************************************************************)
(* The length of the history after add.                                    *)
(***************************************************************************)
\* C28: add trims from the tail while the length exceeds the capacity: when
\* an add that inserted its item returns, the length is at most maxItems,
\* also when the history was longer than maxItems before the call.
C28_AddTrimsToMaxItems ==
    (call.op = "add" /\ ret) => Len(m_clipboardList) <= maxItems

(***************************************************************************)
(* moveItems with Key_Home and Key_End, with Key_Up and Key_Down.          *)
(***************************************************************************)
\* the items of the rows of list, in the order of the rows
ItemsAt(list, rows) ==
    [i \in 1 .. Cardinality(rows) |-> list[sortedRows(rows)[i] + 1]]

\* the items of list in the rows that are not selected
Unselected(list, rows) == ItemsAt(list, (0 .. Len(list) - 1) \ rows)

\* the last operation was moveItems with the key k and a non-empty selection
\* of rows of the history
MovedItemsBy(k) ==
    /\ call.op = "moveItems"
    /\ key = k
    /\ indexList # {}
    /\ indexList \subseteq 0 .. Len(call.old) - 1

\* C29: for any k distinct rows of a history of n items, moveItems with
\* Key_Home leaves the selected items in rows 0..k-1 and moveItems with
\* Key_End leaves them in rows n-k..n-1, both times in their order and
\* with the other items in their order; also when row 0 (for Key_Home) or
\* row n-1 (for Key_End) is selected.
C29_HomeEndGatherSelection ==
    /\ MovedItemsBy("Key_Home")
           => m_clipboardList = ItemsAt(call.old, indexList)
                                    \o Unselected(call.old, indexList)
    /\ MovedItemsBy("Key_End")
           => m_clipboardList = Unselected(call.old, indexList)
                                    \o ItemsAt(call.old, indexList)

\* the row a selected item of row r is to end in: one row toward the front
\* for Key_Up, one toward the back for Key_Down, around the ends
StepTarget(k, r, n) ==
    IF k = "Key_Up" THEN (IF r = 0 THEN n - 1 ELSE r - 1)
    ELSE (IF r = n - 1 THEN 0 ELSE r + 1)

\* the history in which every selected item of old is one row further and
\* the other items fill the remaining rows in their order
Stepped(old, rows, k) ==
    LET n       == Len(old)
        targets == {StepTarget(k, r, n) : r \in rows}
        free    == sortedRows((0 .. n - 1) \ targets)
        rest    == Unselected(old, rows)
    IN  [p \in 1 .. n |->
            IF p - 1 \in targets
            THEN old[(CHOOSE r \in rows : StepTarget(k, r, n) = p - 1) + 1]
            ELSE rest[CHOOSE j \in 1 .. Len(free) : free[j] = p - 1]]

\* C30: for any distinct rows of the history, moveItems with Key_Up
\* (Key_Down) moves every selected item exactly one row toward the front
\* (the back), a selected item in row 0 (in the last row) goes around to
\* the last row (to row 0), the items are the same after the batch and the
\* other items are in their order.
C30_UpDownStepSelection ==
    /\ MovedItemsBy("Key_Up")
           => m_clipboardList = Stepped(call.old, indexList, "Key_Up")
    /\ MovedItemsBy("Key_Down")
           => m_clipboardList = Stepped(call.old, indexList, "Key_Down")

(***************************************************************************)
(* sortItems with an index list that can name a row more than once.        *)
(***************************************************************************)
\* the most indexes of an index list of the checks
MaxIndexes == 4

\* sortItems, the first loop: the pairs << row, m_clipboardList[row] >> of
\* the indexes, in the order of the index list
pairsOf(list, indexes) ==
    [i \in 1 .. Len(indexes) |-> << indexes[i], list[indexes[i] + 1] >>]

\* the sequence s with x put before its first element greater than x
RECURSIVE insertSorted(_, _)
insertSorted(s, x) ==
    IF s = << >> THEN << x >>
    ELSE IF x <= Head(s) THEN << x >> \o s
    ELSE << Head(s) >> \o insertSorted(Tail(s), x)

\* qSort(rows) on a list of rows: the rows in ascending order, each as often
\* as the list has it
RECURSIVE qSortRows(_)
qSortRows(s) ==
    IF s = << >> THEN << >> ELSE insertSorted(qSortRows(Tail(s)), Head(s))

\* qSort(list.begin(), list.end(), compare) on a list of pairs: the orders
\* it can return, every order of the pairs in which no pair is less than
\* one before it
qSortPairs(pairs, compare) ==
    {sorted \in {[i \in 1 .. Len(pairs) |-> pairs[p[i]]] :
                     p \in Permutations(1 .. Len(pairs))} :
         \A i, j \in 1 .. Len(pairs) :
             i < j => ~ lessThan(compare, sorted[j], sorted[i])}

\* sortItems, the second loop from its i-th round on: row rows[i] gets the
\* item of the i-th pair when the pair comes from another row, and the
\* model emits dataChanged for the row
RECURSIVE assignSorted(_, _, _, _, _, _, _)
assignSorted(list, sorted, rows, i, update, sig, changed) ==
    IF i > Len(sorted)
    THEN [list |-> list, emitted |-> sig, changed |-> changed]
    ELSE IF sorted[i][1] # rows[i]
    THEN LET next == [list EXCEPT ![rows[i] + 1] = sorted[i][2]]
         IN  assignSorted(next, sorted, rows, i + 1, update,
                          sig \o dataChanged(next, rows[i], update), TRUE)
    ELSE assignSorted(list, sorted, rows, i + 1, update, sig, changed)

\* ClipboardModel::sortItems(indexList, compare) for an index list given as
\* the sequence of its rows: the lists it can leave, with the signals of
\* ClipboardBrowser::dataChanged; nothing is done when a row is past the end
sortIndexList(list, indexes, compare, update) ==
    IF \E i \in 1 .. Len(indexes) : indexes[i] >= Len(list)
    THEN {[list |-> list, emitted |-> << >>, changed |-> FALSE]}
    ELSE {assignSorted(list, sorted, qSortRows(indexes), 1, update, << >>, FALSE) :
              sorted \in qSortPairs(pairsOf(list, indexes), compare)}

\* ClipboardModel::sortItems(indexList, compare) with any index list;
\* indexList records the list as given
SortIndexList(indexes, compare) ==
    /\ \E res \in sortIndexList(m_clipboardList, indexes, compare, m_update) :
           /\ m_clipboardList' = res.list
           /\ emitted' = res.emitted
           /\ Modified(res.changed)
    /\ ret' = FALSE
    /\ fault' = FALSE
    /\ indexList' = indexes
    /\ key' = compare
    /\ found' = -1
    /\ moves' = << >>
    /\ call' = Call("sortIndexList", EmptyItem, FALSE, 0, 0)
    /\ UNCHANGED << m_max, maxItems, commands, m_update, m_id >>

\* the index lists for a history of n items: up to MaxIndexes rows of the
\* history or the row past its end, a row as often as wanted; in ascending
\* order, as sortItems sorts the rows and the pairs itself
IndexListsOf(n) ==
    {s \in SeqsUpTo(0 .. n, MaxIndexes) :
         \A i, j \in 1 .. Len(s) : i < j => s[i] <= s[j]}

\* sortItems called with the index list and the comparator drawn
SortNext ==
    SortIndexList(indexList, key) /\ UNCHANGED << chanVars, srvVars, storeVars, dataVars >>

\* a history of up to MaxCap items, as forced adds leave it, with an index
\* list and a comparator for sortItems
InitOfSort ==
    /\ m_clipboardList \in SeqsUpTo(ModelBundles, MaxCap)
    /\ m_max = DefaultMax
    /\ maxItems = MaxCap
    /\ commands = NoCommand
    /\ m_update \in BOOLEAN
    /\ m_id = ""
    /\ timerActive = FALSE
    /\ unsaved = FALSE
    /\ call = [op |-> "init", data |-> EmptyItem, force |-> FALSE, row |-> 0,
               row2 |-> 0, old |-> << >>]
    /\ ret = FALSE
    /\ emitted = << >>
    /\ fault = FALSE
    /\ indexList \in IndexListsOf(Len(m_clipboardList))
    /\ key \in Comparators
    /\ found = -1
    /\ moves = << >>
    /\ InitChan /\ InitSrv /\ InitStore /\ InitData

SpecSort == InitOfSort /\ [][SortNext]_vars

\* the last operation was sortItems with rows of the history only
SortedIndexesInRange ==
    /\ call.op = "sortIndexList"
    /\ \A i \in 1 .. Len(indexList) : indexList[i] < Len(call.old)

\* C31: sortItems never changes the set of items: for every list of rows of
\* the history, also one that names a row more than once, the history has
\* afterwards each item as often as before; and if a row of the list is
\* past the end the call changes nothing.
C31_SortKeepsItems ==
    /\ SortedIndexesInRange
           => /\ Len(m_clipboardList) = Len(call.old)
              /\ \A x \in ModelBundles :
                     Count(m_clipboardList, x) = Count(call.old, x)
    /\ (call.op = "sortIndexList" /\ ~ SortedIndexesInRange)
           => m_clipboardList = call.old

(***************************************************************************)
(* Saving the history of a tab.                                            *)
(***************************************************************************)
\* ClipboardBrowser::saveItems(): what it leaves of the timer and of the
\* storage, nothing being done for a browser without a tab id
saveItems(id, active, list, max, stored, old) ==
    IF id = ""
    THEN [timerActive |-> active, file |-> stored, saved |-> old, done |-> FALSE]
    ELSE [timerActive |-> FALSE, file |-> writeModel(list),
          saved |-> [list |-> list, m_max |-> max], done |-> TRUE]

\* the browser has not been destroyed
Alive == call.op # "~ClipboardBrowser"

\* m_timerSave times out: the single-shot timer is no longer active and
\* its signal calls saveItems()
TimerExpires ==
    LET res == saveItems(m_id, FALSE, m_clipboardList, m_max, file, saved)
    IN  /\ timerActive
        /\ timerActive' = res.timerActive
        /\ file' = res.file
        /\ saved' = res.saved
        /\ unsaved' = (unsaved /\ ~ res.done)
        /\ ret' = FALSE
        /\ emitted' = << >>
        /\ call' = Call("timeout", EmptyItem, FALSE, 0, 0)
        /\ UNCHANGED << m_clipboardList, m_max, maxItems, commands, m_update, m_id >>

\* ClipboardBrowser::commitData: saveItems() called at once
CommitData ==
    LET res == saveItems(m_id, timerActive, m_clipboardList, m_max, file, saved)
    IN  /\ timerActive' = res.timerActive
        /\ file' = res.file
        /\ saved' = res.saved
        /\ unsaved' = (unsaved /\ ~ res.done)
        /\ ret' = FALSE
        /\ emitted' = << >>
        /\ call' = Call("commitData", EmptyItem, FALSE, 0, 0)
        /\ UNCHANGED << m_clipboardList, m_max, maxItems, commands, m_update, m_id >>

\* ClipboardBrowser::loadItems: the stored history is read into the model,
\* then m_timerSave->stop()
LoadItems ==
    LET list == readModel(file, m_clipboardList, m_max)
    IN  /\ m_clipboardList' = IF m_id = "" THEN m_clipboardList ELSE list
        /\ timerActive' = IF m_id = "" THEN timerActive ELSE FALSE
        /\ unsaved' = (unsaved \/ (m_id # "" /\ list # m_clipboardList))
        /\ ret' = FALSE
        /\ emitted' = << >>
        /\ call' = Call("loadItems", EmptyItem, FALSE, 0, 0)
        /\ UNCHANGED << m_max, maxItems, commands, m_update, m_id, file, saved >>

\* ClipboardBrowser::~ClipboardBrowser: saveItems() if the timer is active
Destructor ==
    LET res == IF timerActive
               THEN saveItems(m_id, timerActive, m_clipboardList, m_max, file, saved)
               ELSE [timerActive |-> timerActive, file |-> file, saved |-> saved,
                     done |-> FALSE]
    IN  /\ timerActive' = res.timerActive
        /\ file' = res.file
        /\ saved' = res.saved
        /\ unsaved' = (unsaved /\ ~ res.done)
        /\ ret' = FALSE
        /\ emitted' = << >>
        /\ call' = Call("~ClipboardBrowser", EmptyItem, FALSE, 0, 0)
        /\ UNCHANGED << m_clipboardList, m_max, maxItems, commands, m_update, m_id >>

\* the name of the tab of the browser
TabId == "tab"

\* a browser with a tab id under forced adds, clear, the save timer, saves
\* at once, loads and its destruction
SaveNext ==
    \/ \E data \in StoreBundles :
           Alive /\ Add(data, TRUE, 0)
               /\ UNCHANGED << modelVars, chanVars, srvVars, storeVars, dataVars >>
    \/ Alive /\ Clear /\ UNCHANGED << modelVars, chanVars, srvVars, storeVars, dataVars >>
    \/ Alive /\ TimerExpires /\ UNCHANGED << modelVars, chanVars, srvVars, dataVars >>
    \/ Alive /\ CommitData /\ UNCHANGED << modelVars, chanVars, srvVars, dataVars >>
    \/ Alive /\ LoadItems /\ UNCHANGED << modelVars, chanVars, srvVars, dataVars >>
    \/ Alive /\ Destructor /\ UNCHANGED << modelVars, chanVars, srvVars, dataVars >>

\* the browser after its construction and setID(TabId), with an empty
\* stored history
InitOfSave ==
    /\ m_clipboardList = << >>
    /\ m_max = DefaultMax
    /\ maxItems = MaxCap
    /\ commands = NoCommand
    /\ m_update = FALSE
    /\ m_id = TabId
    /\ timerActive = FALSE
    /\ unsaved = FALSE
    /\ call = [op |-> "init", data |-> EmptyItem, force |-> FALSE, row |-> 0,
               row2 |-> 0, old |-> << >>]
    /\ ret = FALSE
    /\ emitted = << >>
    /\ InitModel /\ InitChan /\ InitSrv /\ InitStore /\ InitData

SpecSave == InitOfSave /\ [][SaveNext]_vars

\* C32: whenever the history of a browser with a tab id has been modified
\* since the last saveItems, a save is pending: the save timer is active
\* (and every pending save is carried out in the end, so that no
\* modification stays unsaved).
C32_ModifiedHasSavePending ==
    (Alive /\ m_id # "" /\ unsaved) => timerActive

(***************************************************************************)
(* The result of moveItems and row 0.                                      *)
(***************************************************************************)
\* C33: for any selection of distinct rows of the history and any key, if
\* the item in row 0 after moveItems differs from the item in row 0 before
\* it, then moveItems returned true.
C33_ChangedFrontReturnsTrue ==
    ( /\ call.op = "moveItems"
      /\ indexList \subseteq 0 .. Len(call.old) - 1
      /\ call.old # << >>
      /\ m_clipboardList[1] # call.old[1] )
    => ret

\* C33 happens: Key_Home on row 2 of [A, C, D] put D in row 0 and returned
\* true
C33_Witness ==
    /\ call.op = "moveItems"
    /\ key = "Key_Home"
    /\ indexList = {2}
    /\ call.old = << "A", "C", "D" >>
    /\ m_clipboardList = << "D", "A", "C" >>
    /\ ret

(***************************************************************************)
(* select.                                                                 *)
(***************************************************************************)
\* the rows of the history before select whose items have the fingerprint
\* select was given
OldRowsWithHash ==
    {r \in 0 .. Len(call.old) - 1 : dataHash(call.old[r + 1]) = call.row}

\* the lowest of these rows
LowestOldRow == CHOOSE r \in OldRowsWithHash : \A q \in OldRowsWithHash : r <= q

\* C34: select(fp) returns true whenever some item of the history has the
\* fingerprint fp, and the lowest such item is then in row 0 with the other
\* items in their order; it returns false, and changes nothing, only when
\* no item has the fingerprint.
C34_SelectFindsAndMoves ==
    call.op = "select"
    => /\ OldRowsWithHash # {}
              => /\ ret
                 /\ m_clipboardList = << call.old[LowestOldRow + 1] >>
                                          \o Without(call.old, LowestOldRow)
       /\ ~ ret => (OldRowsWithHash = {} /\ m_clipboardList = call.old)

(***************************************************************************)
(* add at any row.                                                         *)
(***************************************************************************)
\* add with any row argument, forced or not, for every maxItems
AddRowNext ==
    \E data \in Bundles, force \in BOOLEAN, row \in -1 .. MaxCap + 1 :
        Add(data, force, row)
            /\ UNCHANGED << modelVars, chanVars, srvVars, storeVars, dataVars >>

\* add does not run commands here
InitOfAddRow == Init /\ commands = NoCommand

SpecAddRow == InitOfAddRow /\ [][AddRowNext]_vars

\* the row add is to insert at: row within 0 .. the length before the call
ClampedRow == Max(0, Min(call.row, Len(call.old)))

\* C35: whenever add(data, force, row) returns true, the history has on
\* return the inserted bundle at the row clamped to 0 .. the previous
\* length, for every maxItems and every row argument.
C35_AddedAtClampedRow ==
    (call.op = "add" /\ ret)
    => /\ Len(m_clipboardList) > ClampedRow
       /\ m_clipboardList[ClampedRow + 1] = call.data

(***************************************************************************)
(* setMaxItems with any integer.                                           *)
(***************************************************************************)
\* the outcomes of ClipboardModel::setMaxItems(max): for max of 0 or more the
\* one result of the code; for a negative max m_max is set to 0 and the
\* loop "while (rows > max) delete m_clipboardList.takeLast()" runs on after
\* the last item is taken, so QList::takeLast is called on an empty list,
\* undefined behaviour (an abort before endRemoveRows, or a return after it)
setMaxItemsOutcomes(list, max) ==
    IF max >= 0
    THEN {[m_max |-> setMaxItems(list, max).m_max,
           list |-> setMaxItems(list, max).list,
           removed |-> setMaxItems(list, max).removed, fault |-> FALSE]}
    ELSE {[m_max |-> 0, list |-> << >>, removed |-> removed, fault |-> TRUE] :
              removed \in BOOLEAN}

\* ClipboardModel::setMaxItems(max) on the browser's model
SetMaxItems(max) ==
    /\ \E res \in setMaxItemsOutcomes(m_clipboardList, max) :
           /\ m_clipboardList' = res.list
           /\ m_max' = res.m_max
           /\ fault' = res.fault
           /\ Modified(res.removed)
    /\ indexList' = {}
    /\ key' = ""
    /\ found' = -1
    /\ moves' = << >>
    /\ ret' = FALSE
    /\ emitted' = << >>
    /\ call' = Call("setMaxItems", EmptyItem, FALSE, max, 0)
    /\ UNCHANGED << maxItems, commands, m_update, m_id >>

\* forced adds and setMaxItems with any max, negative ones included
MaxItemsNext ==
    \/ \E data \in ModelBundles :
           Add(data, TRUE, 0) /\ NoIndexList
               /\ UNCHANGED << chanVars, srvVars, storeVars, dataVars >>
    \/ \E max \in (0 - MaxCap) .. MaxCap :
           SetMaxItems(max)
               /\ UNCHANGED << chanVars, srvVars, storeVars, dataVars >>

\* add does not run commands here
InitOfMaxItems == Init /\ commands = NoCommand

SpecMaxItems == InitOfMaxItems /\ [][MaxItemsNext]_vars

\* C36: for every integer max, zero and negative values included,
\* setMaxItems(max) sets m_max to the larger of max and 0, leaves the history
\* with the smaller of its previous length and that value, and takes no
\* item from an empty list.
C36_SetMaxItemsAnyMax ==
    call.op = "setMaxItems"
    => /\ m_max = Max(call.row, 0)
       /\ Len(m_clipboardList) = Min(Len(call.old), Max(call.row, 0))
       /\ ~ fault

====
